---- MODULE Spec2Model ----
(***************************************************************************)
(* A model of soapfish's SOAPDispatcher (soapfish/soap_dispatch.py): the   *)
(* request pipeline of handle_soap_request, the routing function           *)
(* _find_handler_for_request, input validation and the middleware chain.   *)
(*                                                                         *)
(* Strings are sequences of characters, so that formatting and the         *)
(* stripping of a namespace from a tag are computed, not assumed.          *)
(* An optional value is None (the empty tuple) or Some(v) (a 1-tuple).     *)
(***************************************************************************)
EXTENDS Integers, Sequences, FiniteSets, TLC

VARIABLES
    service,             \* self.service: [methods, input_header, elements]
    middlewares,         \* self.middlewares, the list the caller handed over
    strict_soap_header,  \* self.strict_soap_header
    constructed,         \* history: self.middlewares as it was at construction
    wsdl,                \* self.wsdl
    xsds,                \* self.xsds: a dict from location to document
    threads,             \* the requests other threads are handling, suspended
    instance,            \* marshal engine: the instance to render
    xmlelement,          \* marshal engine: the node rendering produced
    reparsed,            \* marshal engine: what parsing the node produced
    request,             \* the request being handled (environ, content, fields)
    pc,                  \* position inside dispatch / handle_soap_request
    stages,              \* history: the stages this request has executed
    handler,             \* the callable self.middleware() returned, as a list
    stack,               \* call stack: inside the composed handler, or the
                         \* frames of _generate_xsds during construction
    ret,                 \* the value or exception a call is handing back
    log,                 \* history: middleware / method entries and returns,
                         \* or the calls of generate_xsd during construction
    response             \* the local `response` of handle_soap_request

vars == <<service, middlewares, strict_soap_header, constructed, wsdl, xsds,
          threads, instance, xmlelement, reparsed, request, pc,
          stages, handler, stack, ret, log, response>>

----------------------------------------------------------------------------
(* Bounds of the model. *)

MaxMethods == 2          \* longest method list drawn for the routing function
MaxHeaderChildren == 2   \* most children of a request's soap header
MaxMiddlewares == 2      \* longest middleware list
MaxSchemas == 2          \* most schemas a service's schema refers to
MaxThreads == 2          \* threads handling requests at the same time
MaxItems == 2            \* longest sequence drawn for a repeated element

----------------------------------------------------------------------------
(* Values. *)

None == <<>>
Some(v) == <<v>>

\* Character strings.
EmptyStr == <<>>
A1 == <<"a", "1">>
A2 == <<"a", "2">>
A3 == <<"a", "3">>
I1 == <<"i", "1">>
I2 == <<"i", "2">>
Gh == <<"g", "h">>
Zz == <<"z", "z">>
Ns == <<"n">>

\* A method input is a name (string) looked up in the schema, or a type.
InputName(s) == [kind |-> "str", name |-> s]
InputType(s) == [kind |-> "type", name |-> s]

Actions == {A1, A2, A3, EmptyStr}
MethodActions == {None, Some(A1), Some(A2)}
MethodInputs == {InputName(I1), InputName(I2), InputType(I1)}

\* What SOAP.determine_soap_action(request) can hand back: no action, or a
\* string, the empty one included (a header SOAPAction: "" with the quotes
\* stripped).
ExtractedActions == {None} \cup {Some(a) : a \in Actions}

\* The single child of the soap body: its namespace (if any) and local name.
Element(ns, local) == [ns |-> ns, local |-> local]
BodyElements ==
    {Element(Some(Ns), l) : l \in {I1, I2, Zz}} \cup {Element(None, I1)}

\* Python truthiness of an optional string: None and '' are falsy.
Truthy(s) == s # None /\ s[1] # EmptyStr

\* lxml's element.tag in Clark notation: '{ns}local', or 'local' alone.
Tag(el) == IF el.ns = None THEN el.local
           ELSE <<"{">> \o el.ns[1] \o <<"}">> \o el.local

----------------------------------------------------------------------------
(* Results of a call: a returned value or a raised exception. *)

Return(v) == [tag |-> "return", value |-> v]
Raise(e) == [tag |-> "raise", exc |-> e]

\* SOAPError(code, message)
SOAPError(code, message) == [class |-> "SOAPError", code |-> code, message |-> message]
\* '<fmt>' % arg
Format(fmt, arg) == [fmt |-> fmt, arg |-> arg]
OtherError(name) == [class |-> name]

IsSOAPError(r) == r.tag = "raise" /\ r.exc.class = "SOAPError"

----------------------------------------------------------------------------
(* Construction: the self-description document and the sub-schemas.       *)

\* A dict as Python keeps it: entries in insertion order, one per key.
DictHas(d, key) == \E k \in 1..Len(d) : d[k].key = key
DictGet(d, key) == d[CHOOSE k \in 1..Len(d) : d[k].key = key].value
DictSet(d, key, value) ==
    IF DictHas(d, key)
    THEN [k \in 1..Len(d) |->
            IF d[k].key = key THEN [key |-> key, value |-> value] ELSE d[k]]
    ELSE Append(d, [key |-> key, value |-> value])
DictKeys(d) == {d[k].key : k \in 1..Len(d)}

\* The schemas of a service are objects 0..MaxSchemas, 0 being
\* service.schema; each has a location and lists of imported and included
\* schemas.
SchemaIds == 0..MaxSchemas
Digits == <<"0", "1", "2", "3", "4", "5">>
Location(i) == <<"s", Digits[i + 1]>>
Schema(location, imports, includes) ==
    [location |-> location, imports |-> imports, includes |-> includes]

RECURSIVE Ascending(_)
Ascending(S) ==
    IF S = {} THEN <<>>
    ELSE LET least == CHOOSE x \in S : \A y \in S : x <= y
         IN  <<least>> \o Ascending(S \ {least})

\* Every graph in which a schema refers to at most two schemas: trees,
\* diamonds and cycles (through the root or not).  `split` says how many of
\* a schema's references are imports, the rest being includes; with
\* `alias` the last schema carries the location of schema 1.
Targets == {t \in SUBSET SchemaIds : Cardinality(t) <= 2}
Min(a, b) == IF a < b THEN a ELSE b
SchemaGraph(refs, split, alias) ==
    [i \in SchemaIds |->
       LET all == Ascending(refs[i])
           cut == Min(split, Len(all))
       IN  Schema(IF alias /\ i = MaxSchemas THEN Location(1) ELSE Location(i),
                  SubSeq(all, 1, cut), SubSeq(all, cut + 1, Len(all)))]
Shapes == {<<2, FALSE>>, <<1, FALSE>>, <<1, TRUE>>}
SchemaGraphs ==
    {SchemaGraph(refs, shape[1], shape[2]) :
        refs \in [SchemaIds -> Targets], shape \in Shapes}

\* itertools.chain(schema.imports, schema.includes)
Chain(schema) == schema.imports \o schema.includes

\* py2xsd.generate_xsd(schema): a fresh element holding one xsd:import or
\* xsd:include per reference, its schemaLocation the location referred to.
Refs(g, ids, tag) ==
    [k \in 1..Len(ids) |-> [tag |-> tag, schemaLocation |-> g[ids[k]].location]]
generate_xsd(g, i) ==
    [root |-> "xsd:schema", schema |-> i,
     elements |-> Refs(g, g[i].imports, "xsd:import")
                    \o Refs(g, g[i].includes, "xsd:include")]

\* py2wsdl.generate_wsdl(service): the definitions element, the service's
\* schema inside its types.
generate_wsdl(g) ==
    [root |-> "wsdl:definitions", schema |-> 0,
     elements |-> generate_xsd(g, 0).elements]

XsdQuery == <<"?", "x", "s", "d", "=">>

\* Rewrite the elements of a document whose tag is among `tags`.
Rewrite(element, tags) ==
    [element EXCEPT !.elements =
        [k \in 1..Len(element.elements) |->
           IF element.elements[k].tag \in tags
           THEN [element.elements[k] EXCEPT !.schemaLocation =
                    XsdQuery \o element.elements[k].schemaLocation]
           ELSE element.elements[k]]]

\* Mutant: the path selects xsd:import alone.
rewrite_imports_only(element) == Rewrite(element, {"xsd:import"})

\* _rewrite_locations(element): '?xsd=%s' % e.attrib['schemaLocation'] for
\* every xsd:import and xsd:include of the document.
rewrite_locations(element) == Rewrite(element, {"xsd:import", "xsd:include"})

\* etree.tostring(element, pretty_print=True)
tostring(element) == [bytes |-> element]

\* Mutant: a schema is generated whether or not its location is there
\* (up to the depth of the graph).
AlwaysMissing(generated, location) == FALSE

\* `_schema.location in _generated`
Generated(generated, location) == DictHas(generated, location)

\* _generate_xsds(schema, _generated): `st` holds _generated and, as
\* history, the schemas generate_xsd was called for.  GenerateLoop is the
\* for loop from its k-th schema on.
RECURSIVE generate_xsds(_, _, _)
RECURSIVE GenerateLoop(_, _, _, _)
GenerateLoop(g, schemas, k, st) ==
    IF k > Len(schemas) THEN st
    ELSE LET _schema == schemas[k]
         IN  IF Generated(st.generated, g[_schema].location)
             THEN GenerateLoop(g, schemas, k + 1, st)
             ELSE LET xsd == tostring(rewrite_locations(generate_xsd(g, _schema)))
                      st1 == [generated |-> DictSet(st.generated,
                                                    g[_schema].location, xsd),
                              calls |-> Append(st.calls, _schema)]
                  IN  GenerateLoop(g, schemas, k + 1,
                                   generate_xsds(g, _schema, st1))
generate_xsds(g, schema, st) == GenerateLoop(g, Chain(g[schema]), 1, st)

\* __init__, lines 45-53: what self.wsdl and self.xsds are set to when the
\* caller hands over none.
init_wsdl(g) == tostring(rewrite_locations(generate_wsdl(g)))
init_xsds(g) == generate_xsds(g, 0, [generated |-> <<>>, calls |-> <<>>])

\* The schema of the services the request pipeline is checked with: it
\* imports one schema.
DefaultSchemas ==
    SchemaGraph([i \in SchemaIds |-> IF i = 0 THEN {1} ELSE {}], 1, FALSE)

----------------------------------------------------------------------------
(* Routing: _find_root_tag and _find_handler_for_request. *)

\* root.nsmap[root.prefix]: a KeyError for an element in no namespace.
find_root_tag(body_document) ==
    IF body_document.ns = None
    THEN Raise(OtherError("KeyError"))
    ELSE LET ns == body_document.ns[1]
             tag == Tag(body_document)
             skip == Len(<<"{">> \o ns \o <<"}">>)
         IN  Return(SubSeq(tag, skip + 1, Len(tag)))

\* root_tag == method.input: only a string input can equal the tag.
InputEquals(root_tag, input) ==
    /\ root_tag # None
    /\ input.kind = "str"
    /\ input.name = root_tag[1]

\* Mutant: the loop keeps going and the last matching method wins.
RECURSIVE LastMatch(_, _, _, _)
LastMatch(methods, k, soap_action, root_tag) ==
    IF k > Len(methods) THEN 0
    ELSE LET later == LastMatch(methods, k + 1, soap_action, root_tag)
             here == IF Truthy(soap_action)
                     THEN soap_action = methods[k].soapAction
                     ELSE InputEquals(root_tag, methods[k].input)
         IN  IF later # 0 THEN later ELSE IF here THEN k ELSE 0

\* The for loop over self.service.methods: index of the first method the
\* loop returns, 0 when it falls through.
RECURSIVE FirstMatch(_, _, _, _)
FirstMatch(methods, k, soap_action, root_tag) ==
    IF k > Len(methods) THEN 0
    ELSE IF Truthy(soap_action)
         THEN IF soap_action = methods[k].soapAction
              THEN k
              ELSE FirstMatch(methods, k + 1, soap_action, root_tag)
         ELSE IF InputEquals(root_tag, methods[k].input)
              THEN k
              ELSE FirstMatch(methods, k + 1, soap_action, root_tag)

\* The message of the SOAPError raised when the loop falls through.
RouteErrorMsg(soap_action, root_tag) ==
    IF soap_action # None
    THEN Format("Invalid soap action '%s'", soap_action[1])
    ELSE Format("Missing soap action and invalid root tag '%s'", root_tag[1])

\* Whether the lookup goes by the root tag: `if not soap_action`.
UsesRootTag(soap_action) == ~Truthy(soap_action)

find_handler_for_request(methods, soap_action, body_document) ==
    LET found_tag == IF UsesRootTag(soap_action)
                     THEN find_root_tag(body_document)
                     ELSE Return(None)
    IN  IF found_tag.tag = "raise" THEN found_tag
        ELSE LET root_tag == IF UsesRootTag(soap_action)
                             THEN Some(found_tag.value) ELSE None
                 k == FirstMatch(methods, 1, soap_action, root_tag)
             IN  IF k # 0 THEN Return(k)
                 ELSE Raise(SOAPError("CLIENT", RouteErrorMsg(soap_action, root_tag)))

----------------------------------------------------------------------------
(* The service the dispatcher is built on, and the requests it is sent. *)

A4 == <<"a", "4">>
O1 == <<"o", "1">>
O2 == <<"o", "2">>
H0 == <<"H", "0">>
H1 == <<"H", "1">>
WsaNs == <<"w">>

\* xsd.Method(function, soapAction, input, output, input_header)
Method(soapAction, input, output, input_header) ==
    [soapAction |-> soapAction, input |-> input, output |-> output,
     input_header |-> input_header]

\* Three methods: the first declares its own header type, the second falls
\* back on the service's, the third names an input the schema does not hold.
ServiceMethods ==
    << Method(Some(A1), InputName(I1), InputName(O1), Some(H1)),
       Method(Some(A2), InputName(I2), InputName(O2), None),
       Method(Some(A4), InputName(Gh), InputName(O1), None) >>

ServiceWith(methods, schema) ==
    [methods |-> methods, input_header |-> Some(H0), elements |-> {I1, I2},
     schema |-> schema]
Service(methods) == ServiceWith(methods, DefaultSchemas)

\* A child of the soap header: its namespace (None when its prefix is not in
\* its nsmap), what wsa.XML_SCHEMA.assertValid says of it and what
\* self.schema_validator says of it.
CheckedChild(ns, wsa, schema) == [ns |-> ns, wsa |-> wsa, schema |-> schema]
\* A child the two validators agree on.
HeaderChild(ns, valid) == CheckedChild(ns, valid, valid)
HeaderChildren ==
    {HeaderChild(n, v) : n \in {Some(WsaNs), Some(Ns), None}, v \in BOOLEAN}

RECURSIVE SeqsUpTo(_, _)
SeqsUpTo(S, n) ==
    IF n = 0 THEN {<<>>}
    ELSE LET shorter == SeqsUpTo(S, n - 1)
         IN  shorter \cup {Append(q, x) : q \in shorter, x \in S}

Headers == {None} \cup {Some(h) : h \in SeqsUpTo(HeaderChildren, MaxHeaderChildren)}

\* The headers whose children the two validators may disagree on.
CheckedChildren ==
    {CheckedChild(n, w, v) :
        n \in {Some(WsaNs), Some(Ns), None}, w \in BOOLEAN, v \in BOOLEAN}
CheckedHeaders ==
    {None} \cup {Some(h) : h \in SeqsUpTo(CheckedChildren, MaxHeaderChildren)}

\* The soap body: its single child and what the schema validator says of it.
Body(el, valid) == [el |-> el, valid |-> valid]
Bodies == {Body(el, v) : el \in BodyElements, v \in BOOLEAN}

\* request.http_content: not XML at all, or an envelope; an envelope without
\* a body parses (SOAP.Envelope.parsexml validates nothing).
Malformed == [kind |-> "malformed"]
Envelope(header, body) == [kind |-> "envelope", Header |-> header, Body |-> body]
ContentsOver(headers) ==
    {Malformed}
    \cup {Envelope(h, None) : h \in {None, Some(<<>>)}}
    \cup {Envelope(h, Some(b)) : h \in headers, b \in Bodies}

RequestActions == ExtractedActions \cup {Some(A4)}

\* SOAPRequest(environ, content), with the attributes the dispatcher sets.
SOAPRequest(soap_action, content) ==
    [soap_action |-> soap_action, http_content |-> content,
     envelope |-> None, method |-> 0, soap_header |-> None, soap_body |-> None]

----------------------------------------------------------------------------
(* Envelope parsing: _parse_soap_content. *)

\* SOAP.Envelope.parsexml(xml), with the except clause around it.
parsexml(http_content) ==
    IF http_content.kind = "malformed"
    THEN Raise(SOAPError("CLIENT", Format("%r", OtherError("XMLSyntaxError"))))
    ELSE Return(http_content)

\* The check that follows it: a missing body is a client error.
check_body(envelope) ==
    IF envelope.Body = None
    THEN Raise(SOAPError("CLIENT", Format("Missing SOAP body", EmptyStr)))
    ELSE Return(envelope)

parse_soap_content(http_content) ==
    LET parsed == parsexml(http_content)
    IN  IF parsed.tag = "raise" THEN parsed ELSE check_body(parsed.value)

----------------------------------------------------------------------------
(* Validation: _validate_header, _validate_body, _validate_input. *)

\* etree.DocumentInvalid, remembering what it was raised for (child 0: the body).
DocumentInvalid(part, child) ==
    [class |-> "DocumentInvalid", part |-> part, child |-> child]

\* Mutant: an ignored failure ends the loop.
RECURSIVE ValidateChildrenBreak(_, _, _)
ValidateChildrenBreak(children, k, strict) ==
    IF k > Len(children) THEN Return(None)
    ELSE LET child == children[k]
         IN  IF child.ns = Some(WsaNs)
             THEN IF child.wsa
                  THEN ValidateChildrenBreak(children, k + 1, strict)
                  ELSE Raise(DocumentInvalid("Header", k))
             ELSE IF child.schema
                  THEN ValidateChildrenBreak(children, k + 1, strict)
                  ELSE IF strict THEN Raise(DocumentInvalid("Header", k))
                  ELSE Return(None)

\* Mutant: every child goes to self.schema_validator.
RECURSIVE ValidateChildrenGeneric(_, _, _)
ValidateChildrenGeneric(children, k, strict) ==
    IF k > Len(children) THEN Return(None)
    ELSE IF children[k].schema \/ ~strict
         THEN ValidateChildrenGeneric(children, k + 1, strict)
         ELSE Raise(DocumentInvalid("Header", k))

\* The loop over the header's children, from child k on.  A child of the
\* addressing namespace goes to wsa.XML_SCHEMA.assertValid, whose exception
\* is not caught here; any other child goes to self.schema_validator, whose
\* exception is raised again only if self.strict_soap_header.
RECURSIVE ValidateChildren(_, _, _)
ValidateChildren(children, k, strict) ==
    IF k > Len(children) THEN Return(None)
    ELSE LET child == children[k]
         IN  IF child.ns = Some(WsaNs)
             THEN IF child.wsa
                  THEN ValidateChildren(children, k + 1, strict)
                  ELSE Raise(DocumentInvalid("Header", k))
             ELSE IF child.schema \/ ~strict
                  THEN ValidateChildren(children, k + 1, strict)
                  ELSE Raise(DocumentInvalid("Header", k))

validate_header(soap_header, strict) ==
    IF soap_header = None THEN Return(None)
    ELSE ValidateChildren(soap_header[1], 1, strict)

validate_body(soap_body) ==
    IF soap_body.valid THEN Return(None)
    ELSE Raise(DocumentInvalid("Body", 0))

\* Mutant: the body is validated in strict mode only.
validate_input_strict_only(envelope, strict) ==
    LET h == validate_header(envelope.Header, strict)
    IN  IF h.tag = "raise" THEN h
        ELSE IF strict THEN validate_body(envelope.Body[1]) ELSE Return(None)

validate_input(envelope, strict) ==
    LET h == validate_header(envelope.Header, strict)
    IN  IF h.tag = "raise" THEN h ELSE validate_body(envelope.Body[1])

\* Mutant: the except clause swallows the validation error.
ValidateStageSwallow(envelope, strict) == Return(None)

\* handle_soap_request's try/except around _validate_input.
ValidateStage(envelope, strict) ==
    LET v == validate_input(envelope, strict)
    IN  IF v.tag = "raise"
        THEN Raise(SOAPError("CLIENT", Format("%r", v.exc)))
        ELSE v

----------------------------------------------------------------------------
(* Parsing of the header and the body: _parse_header, _parse_input. *)

\* What soap_header.parse_as / input_parser.parse_xmlelement can do with a
\* node: build the object, or fail, with a SOAPError or with anything else.
ParseOutcomes == {"ok", "SOAPError", "error"}

Parsed(type, node, outcome) ==
    CASE outcome = "ok" -> Return(Some([as |-> type, of |-> node]))
      [] outcome = "SOAPError" ->
            Raise(SOAPError("CLIENT", Format("parse error", EmptyStr)))
      [] OTHER -> Raise(OtherError("ValueError"))

\* Which header type _parse_header parses as: the method's own comes first,
\* then the service's; None when there is nothing to parse or no type.
HeaderType(method, svc, soap_header) ==
    IF soap_header = None THEN None
    ELSE IF method.input_header # None THEN method.input_header
    ELSE IF svc.input_header # None THEN svc.input_header
    ELSE None

parse_header(method, svc, soap_header, outcome) ==
    LET type == HeaderType(method, svc, soap_header)
    IN  IF type = None THEN Return(None)
        ELSE Parsed(type[1], soap_header[1], outcome)

\* self.service.schema.get_element_by_name(name), then element._type.
get_element_by_name(svc, name) ==
    IF name \in svc.elements THEN Return(name)
    ELSE Raise(OtherError("UnknownElement"))

parse_input(method, svc, message, outcome) ==
    IF method.input.kind = "str"
    THEN LET element == get_element_by_name(svc, method.input.name)
         IN  IF element.tag = "raise" THEN element
             ELSE Parsed(element.value, message, outcome)
    ELSE Parsed(method.input.name, message, outcome)

----------------------------------------------------------------------------
(* Responses, middlewares and the composed handler. *)

\* SOAPResponse(soap_body): status 200 and no headers unless given.
SOAPResponse(soap_body) ==
    [class |-> "SOAPResponse", soap_body |-> soap_body, soap_header |-> None,
     http_status_code |-> 200, http_content |-> None, content_type |-> None,
     via |-> <<>>]

IsSOAPResponse(v) == v.class = "SOAPResponse"

\* An object a method function or a middleware hands back as a body.
RsName == <<"R", "s">>
Object(type_name, by, at) ==
    [class |-> "Object", type_name |-> type_name, by |-> by, at |-> at]

\* The middlewares a list can hold, by what they do with next_call:
\*   "next"   return next_call(request)
\*   "wrap"   call next_call(request) and mark the response on the way back
\*   "short"  return a response of their own, next_call is not called
\*   "raise"  raise an exception, next_call is not called
MiddlewareKinds == {"next", "wrap", "short", "raise"}
MiddlewareLists == SeqsUpTo(MiddlewareKinds, MaxMiddlewares)

\* What a method's function can do: return an object, a SOAPResponse, a
\* SOAPError as a value, or raise.
FunctionResults ==
    { Return(Object(RsName, "function", 0)),
      Return(SOAPResponse(Object(RsName, "function", 0))),
      Return(SOAPError("SERVER", Format("failed", EmptyStr))),
      Raise(OtherError("Exception")) }

\* Mutant: every middleware but a raising one calls next_call.
AllCallNext(kind) == kind # "raise"

\* Whether a middleware of this kind calls next_call(request).
CallsNextCall(kind) == kind \in {"next", "wrap"}

\* Mutant: the list is composed back to front.
RECURSIVE middleware_reversed(_, _)
middleware_reversed(mws, i) ==
    IF i = Len(mws)
    THEN [fn |-> "call_method"]
    ELSE [fn |-> mws[Len(mws) - i], next_call |-> middleware_reversed(mws, i + 1)]

\* SOAPDispatcher.middleware(i): the callable for middlewares i.. (0-based),
\* functools.partial(self.middlewares[i], next_call=self.middleware(i+1)),
\* and call_method at the end of the list.
RECURSIVE middleware(_, _)
middleware(mws, i) ==
    IF i = Len(mws)
    THEN [fn |-> "call_method"]
    ELSE [fn |-> mws[i + 1], next_call |-> middleware(mws, i + 1)]

\* call_method(request): the function's result, wrapped if it is no response.
call_method(result) ==
    IF result.tag = "raise" THEN result
    ELSE IF IsSOAPResponse(result.value) THEN result
    ELSE Return(SOAPResponse(result.value))

\* The callable about to be called: the handler itself, or the next_call of
\* the middleware on top of the stack.
Callee == IF stack = <<>> THEN handler[1] ELSE stack[Len(stack)].next_call

----------------------------------------------------------------------------
(* Response assembly: the tail of handle_soap_request. *)

Lower(c) == CASE c = "R" -> "r" [] c = "E" -> "e" [] c = "O" -> "o" [] OTHER -> c

\* utils.uncapitalize
uncapitalize(s) == IF s = <<>> THEN s ELSE <<Lower(s[1])>> \o Tail(s)

\* SOAP.get_error_response(code, message, header=...)
get_error_response(code, message, header) ==
    [envelope |-> "fault", code |-> code, message |-> message, header |-> header]

\* SOAP.Envelope.response(tagname, soap_body, header=...)
EnvelopeResponse(tagname, soap_body, header) ==
    [envelope |-> "response", tagname |-> tagname, body |-> soap_body,
     header |-> header]

ContentType == "SOAP.CONTENT_TYPE"

\* Lines 187-190: wrap what is no SOAPResponse, fix the content type.
Wrapped(resp) ==
    LET r == IF IsSOAPResponse(resp) THEN resp ELSE SOAPResponse(resp)
    IN  [r EXCEPT !.content_type = Some(ContentType)]

\* Mutant: the error is looked for in the chain's result, not in the body
\* of the wrapped response.
AssembleBareErrorOnly(resp, method, content_name) ==
    LET r == Wrapped(resp)
    IN  IF resp.class = "SOAPError"
        THEN [r EXCEPT !.http_content =
                         Some(get_error_response(r.soap_body.code,
                                                 r.soap_body.message,
                                                 r.soap_header)),
                       !.http_status_code = 500]
        ELSE [r EXCEPT !.http_content =
                         Some(EnvelopeResponse(method.output.name, r.soap_body,
                                               r.soap_header))]

\* Lines 192-204.  content_name is the class name of response.content, read
\* only when the method's output is no string.
Assemble(resp, method, content_name) ==
    LET r == Wrapped(resp)
    IN  IF r.soap_body.class = "SOAPError"
        THEN [r EXCEPT !.http_content =
                         Some(get_error_response(r.soap_body.code,
                                                 r.soap_body.message,
                                                 r.soap_header)),
                       !.http_status_code = 500]
        ELSE LET tagname == IF method.output.kind = "str"
                            THEN method.output.name
                            ELSE uncapitalize(content_name)
             IN  [r EXCEPT !.http_content =
                             Some(EnvelopeResponse(tagname, r.soap_body,
                                                   r.soap_header))]

----------------------------------------------------------------------------
(* The dispatcher as a state machine. *)

\* The requests of the pipeline specification: every action, every kind of
\* content, headers of at most one child (longer headers are the business
\* of SpecValidate).
ShortHeaders ==
    {None, Some(<<>>)} \cup {Some(<<c>>) : c \in HeaderChildren}
Requests ==
    {SOAPRequest(a, c) : a \in RequestActions, c \in ContentsOver(ShortHeaders)}
PipelineMiddlewares == {<<>>, <<"wrap", "next">>}

StageOrder ==
    << "PARSE_ENVELOPE", "CHECK_BODY_PRESENT", "VALIDATE", "ROUTE",
       "PARSE_HEADER", "PARSE_BODY", "INVOKE", "MARSHAL_RESPONSE" >>

\* SOAPDispatcher.__init__: the caller's list is kept, not copied.
Init ==
    /\ service = Service(ServiceMethods)
    /\ middlewares \in PipelineMiddlewares
    /\ constructed = middlewares
    /\ wsdl = init_wsdl(service.schema)
    /\ xsds = init_xsds(service.schema).generated
    /\ threads = <<>>
    /\ instance = None /\ xmlelement = None /\ reparsed = None
    /\ strict_soap_header \in BOOLEAN
    /\ request = None
    /\ pc = "idle"
    /\ stages = <<>>
    /\ handler = None
    /\ stack = <<>>
    /\ ret = None
    /\ log = <<>>
    /\ response = None

Between == pc = "idle"

\* The current request, its envelope and its routed method.
Req == request[1]
Env == Req.envelope[1]
\* Mutant: the routed method is kept on the dispatcher, where the request
\* routed last leaves it.
RoutedMethodShared ==
    service.methods[IF threads # <<>> /\ threads[1].request # None
                       /\ threads[1].request[1].method # 0
                    THEN threads[1].request[1].method
                    ELSE Req.method]

RoutedMethod == service.methods[Req.method]

\* Mutant: the exception is not caught.
FailPropagates(r) == response' = response /\ pc' = "raised"

\* What a raised exception does inside the try block of handle_soap_request:
\* a SOAPError becomes the response, anything else leaves the function.
Fail(r) ==
    IF IsSOAPError(r)
    THEN response' = Some(r.exc) /\ pc' = "marshal"
    ELSE response' = response /\ pc' = "raised"

\* dispatch(request) with REQUEST_METHOD POST, up to the try block.
dispatch_post(req) ==
    /\ Between
    /\ request' = Some(req)
    /\ pc' = "parse_envelope"
    /\ UNCHANGED <<service, middlewares, strict_soap_header, constructed, wsdl, xsds,
                   threads, instance, xmlelement, reparsed,
                   stages, handler, stack, ret, log, response>>

\* _parse_soap_content, first half: SOAP.Envelope.parsexml.
parse_envelope ==
    /\ pc = "parse_envelope"
    /\ LET r == parsexml(Req.http_content)
       IN  /\ ret' = Some(r)
           /\ stages' = Append(stages, "PARSE_ENVELOPE")
           /\ IF r.tag = "raise"
              THEN Fail(r) /\ request' = request
              ELSE /\ request' = Some([Req EXCEPT !.envelope = Some(r.value)])
                   /\ pc' = "check_body"
                   /\ response' = response
    /\ UNCHANGED <<service, middlewares, strict_soap_header, constructed, wsdl, xsds,
                   threads, instance, xmlelement, reparsed,
                   handler, stack, log>>

\* _parse_soap_content, second half: the body must be there.
check_body_present ==
    /\ pc = "check_body"
    /\ LET r == check_body(Env)
       IN  /\ ret' = Some(r)
           /\ stages' = Append(stages, "CHECK_BODY_PRESENT")
           /\ IF r.tag = "raise"
              THEN Fail(r)
              ELSE pc' = "validate" /\ response' = response
    /\ UNCHANGED <<service, middlewares, strict_soap_header, constructed, wsdl, xsds,
                   threads, instance, xmlelement, reparsed,
                   request, handler, stack, log>>

\* self._validate_input(soap_envelope) inside its own try/except.
validate ==
    /\ pc = "validate"
    /\ LET r == ValidateStage(Env, strict_soap_header)
       IN  /\ ret' = Some(r)
           /\ stages' = Append(stages, "VALIDATE")
           /\ IF r.tag = "raise"
              THEN Fail(r)
              ELSE pc' = "route" /\ response' = response
    /\ UNCHANGED <<service, middlewares, strict_soap_header, constructed, wsdl, xsds,
                   threads, instance, xmlelement, reparsed,
                   request, handler, stack, log>>

\* request.method = self._find_handler_for_request(request, soap_body_content)
route ==
    /\ pc = "route"
    /\ LET r == find_handler_for_request(service.methods, Req.soap_action,
                                         Env.Body[1].el)
       IN  /\ ret' = Some(r)
           /\ stages' = Append(stages, "ROUTE")
           /\ IF r.tag = "raise"
              THEN Fail(r) /\ request' = request
              ELSE /\ request' = Some([Req EXCEPT !.method = r.value])
                   /\ pc' = "parse_header"
                   /\ response' = response
    /\ UNCHANGED <<service, middlewares, strict_soap_header, constructed, wsdl, xsds,
                   threads, instance, xmlelement, reparsed,
                   handler, stack, log>>

\* request.soap_header = self._parse_header(request.method, soap_header)
parse_header_stage ==
    /\ pc = "parse_header"
    /\ \E outcome \in ParseOutcomes :
         LET r == parse_header(RoutedMethod, service, Env.Header, outcome)
         IN  /\ ret' = Some(r)
             /\ stages' = Append(stages, "PARSE_HEADER")
             /\ IF r.tag = "raise"
                THEN Fail(r) /\ request' = request
                ELSE /\ request' = Some([Req EXCEPT !.soap_header = r.value])
                     /\ pc' = "parse_input"
                     /\ response' = response
    /\ UNCHANGED <<service, middlewares, strict_soap_header, constructed, wsdl, xsds,
                   threads, instance, xmlelement, reparsed,
                   handler, stack, log>>

\* request.soap_body = self._parse_input(request.method, soap_body_content)
parse_input_stage ==
    /\ pc = "parse_input"
    /\ \E outcome \in ParseOutcomes :
         LET r == parse_input(RoutedMethod, service, Env.Body[1].el, outcome)
         IN  /\ ret' = Some(r)
             /\ stages' = Append(stages, "PARSE_BODY")
             /\ IF r.tag = "raise"
                THEN Fail(r) /\ request' = request
                ELSE /\ request' = Some([Req EXCEPT !.soap_body = r.value])
                     /\ pc' = "invoke"
                     /\ response' = response
    /\ UNCHANGED <<service, middlewares, strict_soap_header, constructed, wsdl, xsds,
                   threads, instance, xmlelement, reparsed,
                   handler, stack, log>>

\* Mutant: the handler is the composition of the list the dispatcher was
\* constructed with.
compose_at_construction ==
    /\ pc = "invoke"
    /\ handler' = Some(middleware(constructed, 0))
    /\ stages' = Append(stages, "INVOKE")
    /\ log' = Append(log, [ev |-> "compose", mw |-> "", depth |-> 0])
    /\ pc' = "call"
    /\ UNCHANGED <<service, middlewares, strict_soap_header, constructed, wsdl, xsds,
                   threads, instance, xmlelement, reparsed,
                   request, stack, ret, response>>

\* The else clause, `self.middleware()`: the handler is composed from the
\* list as it is now.
compose ==
    /\ pc = "invoke"
    /\ handler' = Some(middleware(middlewares, 0))
    /\ stages' = Append(stages, "INVOKE")
    /\ log' = Append(log, [ev |-> "compose", mw |-> "", depth |-> 0])
    /\ pc' = "call"
    /\ UNCHANGED <<service, middlewares, strict_soap_header, constructed, wsdl, xsds,
                   threads, instance, xmlelement, reparsed,
                   request, stack, ret, response>>

\* A middleware is entered: it calls next_call, answers itself, or raises.
enter_middleware ==
    /\ pc = "call"
    /\ Callee.fn # "call_method"
    /\ log' = Append(log, [ev |-> "enter", mw |-> Callee.fn, depth |-> Len(stack)])
    /\ CASE CallsNextCall(Callee.fn) ->
              stack' = Append(stack, Callee) /\ pc' = "call" /\ ret' = ret
         [] Callee.fn = "short" ->
              /\ ret' = Some(Return(SOAPResponse(
                              Object(RsName, "middleware", Len(stack)))))
              /\ pc' = "return"
              /\ stack' = stack
         [] OTHER ->
              /\ ret' = Some(Raise(OtherError("Exception")))
              /\ pc' = "return"
              /\ stack' = stack
    /\ UNCHANGED <<service, middlewares, strict_soap_header, constructed, wsdl, xsds,
                   threads, instance, xmlelement, reparsed,
                   request, stages, handler, response>>

\* The end of the chain: call_method(request).
invoke_method ==
    /\ pc = "call"
    /\ Callee.fn = "call_method"
    /\ \E result \in FunctionResults :
         ret' = Some(call_method(result))
    /\ log' = Append(log, [ev |-> "method", mw |-> "", depth |-> Len(stack)])
    /\ pc' = "return"
    /\ UNCHANGED <<service, middlewares, strict_soap_header, constructed, wsdl, xsds,
                   threads, instance, xmlelement, reparsed,
                   request, stages, handler, stack, response>>

\* next_call returns into the middleware on top of the stack, which returns
\* in turn; an exception passes through it.
return_middleware ==
    /\ pc = "return"
    /\ stack # <<>>
    /\ LET top == stack[Len(stack)]
           depth == Len(stack) - 1
       IN  /\ stack' = SubSeq(stack, 1, depth)
           /\ log' = Append(log, [ev |-> "return", mw |-> top.fn, depth |-> depth])
           /\ ret' = IF ret[1].tag = "return" /\ top.fn = "wrap"
                     THEN Some(Return([ret[1].value EXCEPT
                                         !.via = Append(@, depth)]))
                     ELSE ret
    /\ UNCHANGED <<service, middlewares, strict_soap_header, constructed, wsdl, xsds,
                   threads, instance, xmlelement, reparsed,
                   request, pc, stages, handler, response>>

\* Mutant: the call of the chain is inside the try block.
invoke_done_in_try ==
    /\ pc = "return"
    /\ stack = <<>>
    /\ pc' = "marshal"
    /\ response' = IF ret[1].tag = "raise"
                   THEN Some(SOAPError("SERVER", Format("%r", ret[1].exc)))
                   ELSE Some(ret[1].value)
    /\ UNCHANGED <<service, middlewares, strict_soap_header, constructed, wsdl, xsds,
                   threads, instance, xmlelement, reparsed,
                   request, stages, handler, stack, ret, log>>

\* `response = self.middleware()(request)` completes, or its exception
\* leaves handle_soap_request: the else clause is outside the try.
invoke_done ==
    /\ pc = "return"
    /\ stack = <<>>
    /\ IF ret[1].tag = "raise"
       THEN pc' = "raised" /\ response' = response
       ELSE pc' = "marshal" /\ response' = Some(ret[1].value)
    /\ UNCHANGED <<service, middlewares, strict_soap_header, constructed, wsdl, xsds,
                   threads, instance, xmlelement, reparsed,
                   request, stages, handler, stack, ret, log>>

\* What `response.content.__class__.__name__` can yield: the response has
\* no such attribute (None, an AttributeError), or the attribute holds an
\* object of some class; nothing the dispatcher does sets it to soap_body.
OtName == <<"O", "t">>
ContentNames == {None, Some(RsName), Some(OtName)}

\* Line 203 is reached: the body is no SOAPError and the method's output is
\* no string.
ReadsContent(resp, method) ==
    /\ Wrapped(resp).soap_body.class # "SOAPError"
    /\ method.output.kind # "str"

\* Lines 187-205: the response is assembled and returned.
marshal ==
    /\ pc = "marshal"
    /\ \E content \in ContentNames :
         IF ReadsContent(response[1], RoutedMethod) /\ content = None
         THEN /\ response' = response
              /\ stages' = stages
              /\ pc' = "raised"
         ELSE /\ response' = Some(Assemble(response[1], RoutedMethod,
                                   IF content = None THEN EmptyStr ELSE content[1]))
              /\ stages' = Append(stages,
                     IF Wrapped(response[1]).soap_body.class = "SOAPError"
                     THEN "FAULT" ELSE "MARSHAL_RESPONSE")
              /\ pc' = "responded"
    /\ UNCHANGED <<service, middlewares, strict_soap_header, constructed, wsdl, xsds,
                   threads, instance, xmlelement, reparsed,
                   request, handler, stack, ret, log>>

\* WsgiSoapApplication.__call__ hands the response to the transport, or the
\* exception leaves it; the dispatcher waits for the next request.
finish ==
    /\ pc \in {"responded", "raised"}
    /\ pc' = "idle"
    /\ request' = None
    /\ stages' = <<>>
    /\ handler' = None
    /\ stack' = <<>>
    /\ ret' = None
    /\ log' = <<>>
    /\ response' = None
    /\ UNCHANGED <<service, middlewares, strict_soap_header, constructed, wsdl, xsds,
                   threads, instance, xmlelement, reparsed>>

\* Between two requests the caller appends to the list it handed over.
append_middleware(m) ==
    /\ Between
    /\ Len(middlewares) < MaxMiddlewares
    /\ middlewares' = Append(middlewares, m)
    /\ UNCHANGED <<service, strict_soap_header, constructed, wsdl, xsds,
                   threads, instance, xmlelement, reparsed, request, pc,
                   stages, handler, stack, ret, log, response>>

Next ==
    \/ \E req \in Requests : dispatch_post(req)
    \/ parse_envelope
    \/ check_body_present
    \/ validate
    \/ route
    \/ parse_header_stage
    \/ parse_input_stage
    \/ compose
    \/ enter_middleware
    \/ invoke_method
    \/ return_middleware
    \/ invoke_done
    \/ marshal
    \/ finish

Spec == Init /\ [][Next]_vars

----------------------------------------------------------------------------
(* The middleware chain: every middleware list, a list that grows between *)
(* requests, and two requests that reach the chain.                       *)

ValidEnvelope(el) == Envelope(None, Some(Body(el, TRUE)))

\* The request once its content is parsed.
WithEnvelope(req) == [req EXCEPT !.envelope = Some(req.http_content)]
ChainRequests ==
    { SOAPRequest(Some(A1), ValidEnvelope(Element(Some(Ns), I1))),
      SOAPRequest(None, ValidEnvelope(Element(Some(Ns), I2))),
      SOAPRequest(Some(A3), ValidEnvelope(Element(Some(Ns), I1))) }

InitChain ==
    /\ service = Service(ServiceMethods)
    /\ middlewares \in MiddlewareLists
    /\ constructed = middlewares
    /\ wsdl = init_wsdl(service.schema)
    /\ xsds = init_xsds(service.schema).generated
    /\ threads = <<>>
    /\ instance = None /\ xmlelement = None /\ reparsed = None
    /\ strict_soap_header = TRUE
    /\ request = None
    /\ pc = "idle"
    /\ stages = <<>>
    /\ handler = None
    /\ stack = <<>>
    /\ ret = None
    /\ log = <<>>
    /\ response = None

NextChain ==
    \/ \E req \in ChainRequests : dispatch_post(req)
    \/ parse_envelope
    \/ check_body_present
    \/ validate
    \/ route
    \/ parse_header_stage
    \/ parse_input_stage
    \/ compose
    \/ enter_middleware
    \/ invoke_method
    \/ return_middleware
    \/ invoke_done
    \/ marshal
    \/ finish
    \/ \E m \in MiddlewareKinds : append_middleware(m)

SpecChain == InitChain /\ [][NextChain]_vars

----------------------------------------------------------------------------
(* Response assembly alone: every kind of value the chain can hand back,  *)
(* from the state in which the request is about to be invoked.            *)

Hd == <<"H", "d">>
TextPlain == "text/plain"

\* SOAPResponse(soap_body, soap_header=..., http_status_code=...,
\* http_headers={'Content-Type': ...}) as a method function or a middleware
\* may build it.
ResponseWith(soap_body, soap_header, http_status_code, content_type) ==
    [SOAPResponse(soap_body) EXCEPT !.soap_header = soap_header,
                                    !.http_status_code = http_status_code,
                                    !.content_type = content_type]

\* What a middleware that answers itself can hand back: an object or a
\* SOAPError as they are, or either one in a SOAPResponse.
ResultBodies(by) ==
    {Object(RsName, by, 0), SOAPError("SERVER", Format("failed", EmptyStr))}
ChainResults(by) ==
    ResultBodies(by) \cup
    {ResponseWith(b, h, st, ct) :
        b \in ResultBodies(by), h \in {None, Some(Hd)}, st \in {200, 202},
        ct \in {None, Some(TextPlain)}}

\* Two methods: the output of the first is an element name, the output of
\* the second is a type.
AssembleMethods ==
    << Method(Some(A1), InputName(I1), InputName(O1), None),
       Method(Some(A2), InputName(I2), InputType(O2), None) >>

\* The request as PARSE_BODY leaves it.
ParsedRequest(k, el) ==
    [WithEnvelope(SOAPRequest(AssembleMethods[k].soapAction, ValidEnvelope(el)))
        EXCEPT !.method = k,
               !.soap_body = Some([as |-> AssembleMethods[k].input.name, of |-> el])]

InitAssemble ==
    /\ service = Service(AssembleMethods)
    /\ middlewares \in {<<>>, <<"answer">>}
    /\ constructed = middlewares
    /\ wsdl = init_wsdl(service.schema)
    /\ xsds = init_xsds(service.schema).generated
    /\ threads = <<>>
    /\ instance = None /\ xmlelement = None /\ reparsed = None
    /\ strict_soap_header = TRUE
    /\ \E k \in 1..Len(AssembleMethods) :
         request = Some(ParsedRequest(k, Element(Some(Ns), AssembleMethods[k].input.name)))
    /\ pc = "invoke"
    /\ stages = SubSeq(StageOrder, 1, 6)
    /\ handler = None
    /\ stack = <<>>
    /\ ret = None
    /\ log = <<>>
    /\ response = None

\* A middleware that does not call next_call and returns a value of its own.
answer_middleware ==
    /\ pc = "call"
    /\ Callee.fn = "answer"
    /\ \E v \in ChainResults("middleware") : ret' = Some(Return(v))
    /\ log' = Append(log, [ev |-> "enter", mw |-> Callee.fn, depth |-> Len(stack)])
    /\ pc' = "return"
    /\ UNCHANGED <<service, middlewares, strict_soap_header, constructed, wsdl, xsds,
                   threads, instance, xmlelement, reparsed,
                   request, stages, handler, stack, response>>

\* The method's function returns a value of its own.
invoke_function ==
    /\ pc = "call"
    /\ Callee.fn = "call_method"
    /\ \E v \in ChainResults("function") : ret' = Some(call_method(Return(v)))
    /\ log' = Append(log, [ev |-> "method", mw |-> "", depth |-> Len(stack)])
    /\ pc' = "return"
    /\ UNCHANGED <<service, middlewares, strict_soap_header, constructed, wsdl, xsds,
                   threads, instance, xmlelement, reparsed,
                   request, stages, handler, stack, response>>

NextAssemble ==
    \/ compose
    \/ answer_middleware
    \/ invoke_function
    \/ invoke_done
    \/ marshal

SpecAssemble == InitAssemble /\ [][NextAssemble]_vars

----------------------------------------------------------------------------
(* The transport entry point: dispatch, handle_wsdl_request and           *)
(* handle_xsd_request.                                                    *)

\* A Python str used as a response body.
Str(chars) == [class |-> "str", value |-> chars]

\* `sub in s` for two strings.
Contains(sub, s) ==
    \E i \in 0..(Len(s) - Len(sub)) : SubSeq(s, i + 1, i + Len(sub)) = sub

WsdlWord == <<"w", "s", "d", "l">>
XsdWord == <<"x", "s", "d">>
XsdEquals == <<"x", "s", "d", "=">>

\* s.split(sep)
RECURSIVE Split(_, _)
Split(s, sep) ==
    IF \E i \in 1..Len(s) : s[i] = sep
    THEN LET i == CHOOSE j \in 1..Len(s) :
                     s[j] = sep /\ \A h \in 1..(j - 1) : s[h] # sep
         IN  <<SubSeq(s, 1, i - 1)>> \o Split(SubSeq(s, i + 1, Len(s)), sep)
    ELSE <<s>>

\* urllib.parse.parse_qs(qs): a dict from each name to the LIST of its
\* values; fields without '=' and fields with a blank value are left out.
RECURSIVE ParseFields(_, _, _)
ParseFields(fields, k, d) ==
    IF k > Len(fields) THEN d
    ELSE LET pair == Split(fields[k], "=")
             name == pair[1]
             value == SubSeq(fields[k], Len(name) + 2, Len(fields[k]))
         IN  IF Len(pair) < 2 \/ value = <<>>
             THEN ParseFields(fields, k + 1, d)
             ELSE ParseFields(fields, k + 1,
                     DictSet(d, name,
                             [py |-> "list",
                              items |-> Append(IF DictHas(d, name)
                                               THEN DictGet(d, name).items
                                               ELSE <<>>, value)]))
parse_qs(qs) == ParseFields(Split(qs, "&"), 1, <<>>)

\* d.get(key)
Get(d, key) == IF DictHas(d, key) THEN Some(DictGet(d, key)) ELSE None

\* self.xsds[key] for a dict: a list cannot be hashed (TypeError), a key
\* that is not there is a KeyError.
Subscript(d, key) ==
    IF key = None THEN Raise(OtherError("KeyError"))
    ELSE IF key[1].py = "list" THEN Raise(OtherError("TypeError"))
    ELSE IF DictHas(d, key[1].chars) THEN Return(DictGet(d, key[1].chars))
    ELSE Raise(OtherError("KeyError"))

TextXml == "text/xml"

\* handle_wsdl_request: scheme and host are put into the document when both
\* are there; the scheme defaults to 'http'.
handle_wsdl_request(document, environ) ==
    LET content == IF environ.HTTP_HOST # None
                   THEN [document EXCEPT !.bytes =
                           [format |-> @, scheme |-> "http",
                            host |-> environ.HTTP_HOST[1]]]
                   ELSE document
    IN  Return([ResponseWith(Str(WsdlWord), None, 200, Some(TextXml))
                  EXCEPT !.http_content = Some(content)])

\* handle_xsd_request: self.xsds[qs.get('xsd')]
handle_xsd_request(d, environ) ==
    LET qs == parse_qs(environ.QUERY_STRING)
        xsd == Subscript(d, Get(qs, XsdWord))
    IN  IF xsd.tag = "raise" THEN xsd
        ELSE Return([ResponseWith(Str(XsdWord), None, 200, Some(TextXml))
                       EXCEPT !.http_content = Some(xsd.value)])

\* The else branch of dispatch.
BadRequest ==
    [ResponseWith(Str(<<"b", "a", "d", " ", "r", "e", "q", "u", "e", "s", "t">>),
                  None, 400, Some(TextPlain))
       EXCEPT !.http_content = Some(<<"b", "a", "d", "_", "r", "e", "q", "u", "e", "s", "t">>)]

\* The requests of the transport: REQUEST_METHOD, QUERY_STRING and
\* HTTP_HOST of the environ, besides the action and the content.
HttpRequest(request_method, qs, host, soap_action, content) ==
    [environ |-> [REQUEST_METHOD |-> request_method, QUERY_STRING |-> qs,
                  HTTP_HOST |-> host],
     soap_action |-> soap_action, http_content |-> content,
     envelope |-> None, method |-> 0, soap_header |-> None, soap_body |-> None]

RequestMethods == {"GET", "POST", "PUT", ""}
QueryStrings ==
    { EmptyStr,
      WsdlWord,
      XsdEquals \o Location(1),
      XsdEquals \o Location(0),
      XsdEquals,
      XsdEquals \o Location(1) \o <<"&">> \o WsdlWord,
      WsdlWord \o <<"&">> \o XsdEquals \o Location(1),
      <<"x", "=", "1">>,
      <<"W", "S", "D", "L">> }
DispatchRequests ==
    {HttpRequest(m, qs, host, Some(A1), c) :
        m \in RequestMethods, qs \in QueryStrings, host \in {None, Some("h")},
        c \in {ValidEnvelope(Element(Some(Ns), I1)), Malformed}}

\* A handler of dispatch hands back its response, or raises.
Answer(r) ==
    /\ ret' = Some(r)
    /\ IF r.tag = "raise"
       THEN pc' = "raised" /\ response' = response
       ELSE pc' = "responded" /\ response' = Some(r.value)

\* dispatch(request)
dispatch(req) ==
    /\ Between
    /\ request' = Some(req)
    /\ LET request_method == req.environ.REQUEST_METHOD
           qs == req.environ.QUERY_STRING
       IN  IF request_method = "GET" /\ Contains(WsdlWord, qs)
           THEN Answer(handle_wsdl_request(wsdl, req.environ))
           ELSE IF request_method = "GET" /\ Contains(XsdEquals, qs)
           THEN Answer(handle_xsd_request(xsds, req.environ))
           ELSE IF request_method = "POST"
           THEN pc' = "parse_envelope" /\ UNCHANGED <<ret, response>>
           ELSE Answer(Return(BadRequest))
    /\ UNCHANGED <<service, middlewares, strict_soap_header, constructed, wsdl,
                   xsds, threads, instance, xmlelement, reparsed, stages, handler, stack, log>>

InitDispatch ==
    /\ service = Service(ServiceMethods)
    /\ middlewares \in {<<>>, <<"wrap">>}
    /\ constructed = middlewares
    /\ wsdl = init_wsdl(service.schema)
    /\ xsds = init_xsds(service.schema).generated
    /\ threads = <<>>
    /\ instance = None /\ xmlelement = None /\ reparsed = None
    /\ strict_soap_header = TRUE
    /\ request = None
    /\ pc = "idle"
    /\ stages = <<>>
    /\ handler = None
    /\ stack = <<>>
    /\ ret = None
    /\ log = <<>>
    /\ response = None

NextDispatch ==
    \/ \E req \in DispatchRequests : dispatch(req)
    \/ parse_envelope
    \/ check_body_present
    \/ validate
    \/ route
    \/ parse_header_stage
    \/ parse_input_stage
    \/ compose
    \/ enter_middleware
    \/ invoke_method
    \/ return_middleware
    \/ invoke_done
    \/ marshal
    \/ finish

SpecDispatch == InitDispatch /\ [][NextDispatch]_vars

----------------------------------------------------------------------------
(* Construction step by step: __init__ and the recursion of               *)
(* _generate_xsds, for every import/include graph.                        *)

\* What a caller can hand over as wsdl= and xsds=: documents of its own,
\* which refer to a schema by a location of their own.
CustomRefs == <<[tag |-> "xsd:import", schemaLocation |-> <<"c">>]>>
CustomWsdl ==
    [bytes |-> [root |-> "wsdl:definitions", schema |-> 0, elements |-> CustomRefs]]
CustomXsds ==
    <<[key |-> Location(1),
       value |-> [bytes |-> [root |-> "xsd:schema", schema |-> 1,
                             elements |-> CustomRefs]]]>>

InitConstruct ==
    /\ \E g \in SchemaGraphs : service = ServiceWith(ServiceMethods, g)
    /\ middlewares = <<>>
    /\ constructed = <<>>
    /\ wsdl = None
    /\ xsds = <<>>
    /\ threads = <<>>
    /\ instance = None /\ xmlelement = None /\ reparsed = None
    /\ strict_soap_header = TRUE
    /\ request = None
    /\ pc = "new"
    /\ stages = <<>>
    /\ handler = None
    /\ stack = <<>>
    /\ ret = None
    /\ log = <<>>
    /\ response = None

\* A walk that recurses before it records the location.
NotYetStored(generated, location, xsd) == generated

\* _generated[_schema.location] = xsd, ahead of the recursive call.
Store(generated, location, xsd) == DictSet(generated, location, xsd)

\* The frame of _generate_xsds on top of the stack, and the schema its for
\* loop is at.
Frame == stack[Len(stack)]
FrameSchemas == Chain(service.schema[Frame.schema])
Current == FrameSchemas[Frame.k]
Advance(frame) == [frame EXCEPT !.k = @ + 1]

\* __init__ up to the call of _generate_xsds (or to its end when the caller
\* hands over the sub-schemas).
construct(wsdl_arg, xsds_arg) ==
    /\ pc = "new"
    /\ wsdl' = IF wsdl_arg = None THEN init_wsdl(service.schema) ELSE wsdl_arg[1]
    /\ IF xsds_arg = None
       THEN /\ xsds' = <<>>
            /\ stack' = <<[schema |-> 0, k |-> 1]>>
            /\ pc' = "generate"
       ELSE /\ xsds' = xsds_arg[1]
            /\ stack' = stack
            /\ pc' = "idle"
    /\ UNCHANGED <<service, middlewares, strict_soap_header, constructed,
                   threads, instance, xmlelement, reparsed, request, stages, handler, ret, log, response>>

\* The for loop meets a schema whose location is in _generated: continue.
generate_skip ==
    /\ pc = "generate"
    /\ Frame.k <= Len(FrameSchemas)
    /\ Generated(xsds, service.schema[Current].location)
    /\ stack' = [stack EXCEPT ![Len(stack)] = Advance(@)]
    /\ UNCHANGED <<service, middlewares, strict_soap_header, constructed, wsdl,
                   xsds, threads, instance, xmlelement, reparsed, request, pc, stages, handler, ret, log,
                   response>>

\* The for loop meets a schema whose location is not there: the schema is
\* generated, rewritten and stored, and _generate_xsds is called for it.
generate_one ==
    /\ pc = "generate"
    /\ Frame.k <= Len(FrameSchemas)
    /\ ~Generated(xsds, service.schema[Current].location)
    /\ LET xsd == tostring(rewrite_locations(generate_xsd(service.schema, Current)))
       IN  xsds' = Store(xsds, service.schema[Current].location, xsd)
    /\ log' = Append(log, [ev |-> "generate_xsd", schema |-> Current,
                           location |-> service.schema[Current].location])
    /\ stack' = Append([stack EXCEPT ![Len(stack)] = Advance(@)],
                       [schema |-> Current, k |-> 1])
    /\ UNCHANGED <<service, middlewares, strict_soap_header, constructed, wsdl,
                   threads, instance, xmlelement, reparsed, request, pc, stages, handler, ret, response>>

\* The for loop is over: _generate_xsds returns _generated, to its caller
\* or to __init__, which is then done.
generate_return ==
    /\ pc = "generate"
    /\ Frame.k > Len(FrameSchemas)
    /\ stack' = SubSeq(stack, 1, Len(stack) - 1)
    /\ pc' = IF Len(stack) = 1 THEN "idle" ELSE pc
    /\ UNCHANGED <<service, middlewares, strict_soap_header, constructed, wsdl,
                   xsds, threads, instance, xmlelement, reparsed, request, stages, handler, ret, log, response>>

NextConstruct ==
    \/ \E wsdl_arg \in {None, Some(CustomWsdl)},
          xsds_arg \in {None, Some(CustomXsds)} :
         construct(wsdl_arg, xsds_arg)
    \/ generate_skip
    \/ generate_one
    \/ generate_return

SpecConstruct == InitConstruct /\ [][NextConstruct]_vars

\* SOAPDispatcher(service): the caller hands over no document, so the
\* constructor generates them; it runs on, a step of __init__ that can be
\* taken being taken.
NextGenerate ==
    \/ construct(None, None)
    \/ generate_skip
    \/ generate_one
    \/ generate_return

SpecGenerate ==
    InitConstruct /\ [][NextGenerate]_vars /\ WF_vars(NextGenerate)

----------------------------------------------------------------------------
(* Concurrent requests: the requests other threads are handling are kept  *)
(* in `threads`; a switch suspends the running one and resumes another.   *)

\* What belongs to one call of dispatch: the request object and the locals.
Context ==
    [request |-> request, pc |-> pc, stages |-> stages, handler |-> handler,
     stack |-> stack, ret |-> ret, log |-> log, response |-> response]
IdleContext ==
    [request |-> None, pc |-> "idle", stages |-> <<>>, handler |-> None,
     stack |-> <<>>, ret |-> None, log |-> <<>>, response |-> None]

ConcurrentRequests ==
    { HttpRequest("POST", EmptyStr, None, Some(A1),
                  Envelope(Some(<<HeaderChild(Some(Ns), TRUE)>>),
                           Some(Body(Element(Some(Ns), I1), TRUE)))),
      HttpRequest("POST", EmptyStr, None, Some(A2),
                  ValidEnvelope(Element(Some(Ns), I2))),
      HttpRequest("GET", WsdlWord, None, None, Malformed) }

InitConcurrent ==
    /\ service = Service(ServiceMethods)
    /\ middlewares = <<"wrap">>
    /\ constructed = middlewares
    /\ wsdl = init_wsdl(service.schema)
    /\ xsds = init_xsds(service.schema).generated
    /\ threads = [i \in 1..(MaxThreads - 1) |-> IdleContext]
    /\ instance = None /\ xmlelement = None /\ reparsed = None
    /\ strict_soap_header = TRUE
    /\ request = None
    /\ pc = "idle"
    /\ stages = <<>>
    /\ handler = None
    /\ stack = <<>>
    /\ ret = None
    /\ log = <<>>
    /\ response = None

\* The scheduler suspends the running thread and resumes thread i.
switch(i) ==
    /\ i \in 1..Len(threads)
    /\ threads[i] # Context
    /\ threads' = [threads EXCEPT ![i] = Context]
    /\ request' = threads[i].request
    /\ pc' = threads[i].pc
    /\ stages' = threads[i].stages
    /\ handler' = threads[i].handler
    /\ stack' = threads[i].stack
    /\ ret' = threads[i].ret
    /\ log' = threads[i].log
    /\ response' = threads[i].response
    /\ UNCHANGED <<service, middlewares, strict_soap_header, constructed, wsdl,
                   xsds, instance, xmlelement, reparsed>>

NextConcurrent ==
    \/ \E req \in ConcurrentRequests : dispatch(req)
    \/ \E i \in 1..(MaxThreads - 1) : switch(i)
    \/ parse_envelope
    \/ check_body_present
    \/ validate
    \/ route
    \/ parse_header_stage
    \/ parse_input_stage
    \/ compose
    \/ enter_middleware
    \/ invoke_method
    \/ return_middleware
    \/ invoke_done
    \/ marshal
    \/ finish

SpecConcurrent == InitConcurrent /\ [][NextConcurrent]_vars

----------------------------------------------------------------------------
(* Routing alone: every method list, every extracted action and every     *)
(* body child, from the state in which the request is about to be routed. *)

RouteMethods ==
    {Method(a, i, InputName(O1), None) : a \in MethodActions, i \in MethodInputs}
MethodLists == SeqsUpTo(RouteMethods, MaxMethods)

\* The state handle_soap_request is in when it calls _find_handler_for_request.
AtStage(stage_pc, done, svc, req, strict) ==
    /\ service = svc
    /\ middlewares = <<>>
    /\ constructed = <<>>
    /\ wsdl = init_wsdl(service.schema)
    /\ xsds = init_xsds(service.schema).generated
    /\ threads = <<>>
    /\ instance = None /\ xmlelement = None /\ reparsed = None
    /\ strict_soap_header = strict
    /\ request = Some(req)
    /\ pc = stage_pc
    /\ stages = done
    /\ handler = None
    /\ stack = <<>>
    /\ ret = None
    /\ log = <<>>
    /\ response = None

InitRoute ==
    \E ml \in MethodLists, a \in ExtractedActions, el \in BodyElements :
        AtStage("route", SubSeq(StageOrder, 1, 3), Service(ml),
                WithEnvelope(SOAPRequest(a, ValidEnvelope(el))), TRUE)

NextRoute == route

SpecRoute == InitRoute /\ [][NextRoute]_vars

----------------------------------------------------------------------------
(* Validation alone: every header of up to MaxHeaderChildren children,    *)
(* from the state in which the envelope is about to be validated.         *)

InitValidate ==
    \E h \in CheckedHeaders, valid \in BOOLEAN, strict \in BOOLEAN :
        AtStage("validate", SubSeq(StageOrder, 1, 2), Service(ServiceMethods),
                WithEnvelope(SOAPRequest(Some(A1),
                        Envelope(h, Some(Body(Element(Some(Ns), I1), valid))))),
                strict)

NextValidate == validate

SpecValidate == InitValidate /\ [][NextValidate]_vars

----------------------------------------------------------------------------
(* The marshal engine: scalar codec, field descriptors and composite      *)
(* types, with the types the tests declare.                               *)

\* Scalar types: a codec, and the enumeration that constrains it if any.
String == [codec |-> "String", enumeration |-> {}]
Boolean == [codec |-> "Boolean", enumeration |-> {}]
DateTime == [codec |-> "DateTime", enumeration |-> {}]
\* class Pilot(xsd.String): enumeration = ["CAPTAIN","FIRST_OFFICER"]
Pilot == [codec |-> "String", enumeration |-> {"CAPTAIN", "FIRST_OFFICER"}]
\* A field whose type is a composite type refers to it by name.
Complex(name) == [codec |-> "ComplexType", name |-> name]

\* Values of the scalar types: str, bool and datetime objects.
PyStr(s) == [py |-> "str", v |-> s]
PyBool(b) == [py |-> "bool", v |-> b]
PyDateTime(date, time) == [py |-> "datetime", v |-> [date |-> date, time |-> time]]

Strings == {"LN-KKU", "nil"}
DateTimes ==
    {PyDateTime("2001-10-26", "21:32:52"), PyDateTime("2001-10-27", "06:00:00")}

PyClass(type) ==
    CASE type.codec = "String" -> "str"
      [] type.codec = "Boolean" -> "bool"
      [] type.codec = "DateTime" -> "datetime"

\* A scalar type whose enumeration restricts nothing.
Unrestricted(type, text) == TRUE

\* The text is one the type's enumeration allows, if it has an enumeration.
InEnumeration(type, text) ==
    type.enumeration = {} \/ text \in type.enumeration

\* encode(value) -> text
encode(type, value) ==
    IF value.py # PyClass(type)
    THEN Raise(OtherError("ValueError"))
    ELSE CASE type.codec = "String" ->
                IF ~InEnumeration(type, value.v)
                THEN Raise(OtherError("ValidationError"))
                ELSE Return(value.v)
           [] type.codec = "Boolean" ->
                Return(IF value.v THEN "true" ELSE "false")
           [] type.codec = "DateTime" ->
                Return(value.v.date \o "T" \o value.v.time)

\* decode(text) -> value
decode(type, text) ==
    CASE type.codec = "String" ->
            IF ~InEnumeration(type, text)
            THEN Raise(OtherError("ValidationError"))
            ELSE Return(PyStr(text))
      [] type.codec = "Boolean" ->
            IF text \in {"true", "false"}
            THEN Return(PyBool(text = "true"))
            ELSE Raise(OtherError("ValueError"))
      [] type.codec = "DateTime" ->
            IF \E d \in DateTimes : encode(type, d) = Return(text)
            THEN Return(CHOOSE d \in DateTimes : encode(type, d) = Return(text))
            ELSE Raise(OtherError("ValueError"))

\* Field descriptors.
xsd_Attribute(type, use, nilable) ==
    [descriptor |-> "Attribute", type |-> type, use |-> use, nilable |-> nilable]
xsd_Element(type, minOccurs) ==
    [descriptor |-> "Element", type |-> type, minOccurs |-> minOccurs]
xsd_ListElement(type, tagname, minOccurs, maxOccurs) ==
    [descriptor |-> "ListElement", type |-> type, tagname |-> tagname,
     minOccurs |-> minOccurs, maxOccurs |-> maxOccurs]
xsd_Ref(name) == [descriptor |-> "Ref", type |-> Complex(name)]

Field(name, descriptor) == [name |-> name, descriptor |-> descriptor]
\* maxOccurs=10
MaxOccurs == 10
\* A composite type: what it inherits from, and its own declarations.
Composite(base, fields) == [base |-> base, fields |-> fields]

Aircraft ==
    Composite(None, <<Field("tail_number", xsd_Attribute(String, "REQUIRED", FALSE))>>)
Airport ==
    Composite(None, <<Field("type", xsd_Element(String, 1)),
                      Field("code", xsd_Element(String, 1))>>)
Flight ==
    Composite(None,
        <<Field("tail_number", xsd_Element(String, 1)),
          Field("takeoff_datetime", xsd_Element(DateTime, 0)),
          Field("takeoff_airport", xsd_Element(Complex("Airport"), 1)),
          Field("landing_airport", xsd_Element(Complex("Airport"), 1)),
          Field("takeoff_pilot", xsd_Element(Pilot, 0)),
          Field("landing_pilot", xsd_Element(Pilot, 0)),
          Field("passangers", xsd_ListElement(String, "passanger", 0, MaxOccurs))>>)
TypeA == Composite(None, <<Field("name", xsd_Attribute(String, "REQUIRED", FALSE))>>)
TypeB ==
    Composite(Some("A"), <<Field("type", xsd_Attribute(String, "REQUIRED", FALSE))>>)
\* class B(A): type = xsd.Element(xsd.String), of test_inheritance_parsin
TypeBParsed ==
    Composite(Some("A"), <<Field("type", xsd_Element(String, 1))>>)
RequestResponseOperation ==
    Composite(None, <<Field("input", xsd_Element(String, 0)),
                      Field("output", xsd_Element(String, 0))>>)
Operation ==
    Composite(None,
        <<Field("name", xsd_Element(String, 1)),
          Field("requestResponseOperation", xsd_Ref("RequestResponseOperation"))>>)
TBodyAttributes ==
    Composite(None,
        <<Field("encodingStyle", xsd_Attribute(String, "OPTIONAL", FALSE)),
          Field("use", xsd_Attribute(String, "REQUIRED", FALSE)),
          Field("namespace", xsd_Attribute(String, "REQUIRED", FALSE))>>)
TBody ==
    Composite(None,
        <<Field("parts", xsd_Attribute(String, "REQUIRED", FALSE)),
          Field("tBodyAttributes", xsd_Ref("TBodyAttributes"))>>)
\* A type with nilable attributes: xsd.Attribute(xsd.Boolean, nilable = True,
\* use=xsd.Use.OPTIONAL), and the same of a string.
Mixed ==
    Composite(None,
        <<Field("mixed", xsd_Attribute(Boolean, "OPTIONAL", TRUE)),
          Field("name", xsd_Attribute(String, "OPTIONAL", TRUE))>>)

TypeNames ==
    {"Aircraft", "Airport", "Flight", "A", "B", "B2", "RequestResponseOperation",
     "Operation", "TBodyAttributes", "TBody", "Mixed"}

Declared(name) ==
    CASE name = "Aircraft" -> Aircraft
      [] name = "Airport" -> Airport
      [] name = "Flight" -> Flight
      [] name = "A" -> TypeA
      [] name = "B" -> TypeB
      [] name = "B2" -> TypeBParsed
      [] name = "RequestResponseOperation" -> RequestResponseOperation
      [] name = "Operation" -> Operation
      [] name = "TBodyAttributes" -> TBodyAttributes
      [] name = "TBody" -> TBody
      [] name = "Mixed" -> Mixed

\* A field list with the type's own declarations ahead of the parent's.
RECURSIVE OwnFieldsFirst(_)
OwnFieldsFirst(name) ==
    LET type == Declared(name)
    IN  IF type.base = None
        THEN type.fields
        ELSE type.fields \o OwnFieldsFirst(type.base[1])

\* The effective field list: the parent's, then the type's own declarations.
RECURSIVE EffectiveFields(_)
EffectiveFields(name) ==
    LET type == Declared(name)
    IN  IF type.base = None
        THEN type.fields
        ELSE EffectiveFields(type.base[1]) \o type.fields

\* Nodes of the document tree.
Node(tag, attrib, children, text) ==
    [tag |-> tag, attrib |-> attrib, children |-> children, text |-> text]
NewElement(tag) == Node(tag, <<>>, <<>>, "")
SetAttribute(node, name, text) ==
    [node EXCEPT !.attrib = Append(@, [name |-> name, value |-> text])]
AppendChild(node, child) == [node EXCEPT !.children = Append(@, child)]
\* xmlelement.get(name)
GetAttribute(node, name) ==
    IF \E i \in 1..Len(node.attrib) : node.attrib[i].name = name
    THEN Some(node.attrib[CHOOSE i \in 1..Len(node.attrib) :
                              node.attrib[i].name = name].value)
    ELSE None
\* The children of the node that carry the tag, in document order.
FindAll(node, tag) == SelectSeq(node.children, LAMBDA c : c.tag = tag)

Nil == "nil"

RECURSIVE renderInstance(_, _, _)
RECURSIVE RenderFields(_, _, _, _)
RECURSIVE RenderItems(_, _, _, _)

\* One child of the parent for a value of the type, scalar or composite.
RenderChild(type, parent, name, value) ==
    IF type.codec = "ComplexType"
    THEN LET r == renderInstance(type.name, value, name)
         IN  IF r.tag = "raise" THEN r ELSE Return(AppendChild(parent, r.value))
    ELSE LET t == encode(type, value)
         IN  IF t.tag = "raise" THEN t
             ELSE Return(AppendChild(parent, Node(name, <<>>, <<>>, t.value)))

RenderItems(field, items, k, parent) ==
    IF k > Len(items) THEN Return(parent)
    ELSE LET r == RenderChild(field.type, parent, field.tagname, items[k])
         IN  IF r.tag = "raise" THEN r
             ELSE RenderItems(field, items, k + 1, r.value)

\* A group rendered onto a node of its own, appended to the parent.
RenderRefWrapped(field, parent, name, value) ==
    LET r == RenderFields(EffectiveFields(field.type.name), 1, value,
                          NewElement(name))
    IN  IF r.tag = "raise" THEN r ELSE Return(AppendChild(parent, r.value))

\* Group / AttributeGroup: the embedded type's own field renderers, directly
\* onto the parent node.
RenderRef(field, parent, name, value) ==
    RenderFields(EffectiveFields(field.type.name), 1, value, parent)

\* A repeated element that enforces no bounds.
AnyCount(field, count) == TRUE

\* minOccurs <= count <= maxOccurs
WithinBounds(field, count) ==
    count >= field.minOccurs /\ count <= field.maxOccurs

\* render(parentNode, name, value)
render(field, parent, name, value) ==
    CASE field.descriptor = "Attribute" ->
            IF value = None
            THEN IF field.nilable THEN Return(SetAttribute(parent, name, Nil))
                 ELSE IF field.use = "REQUIRED"
                      THEN Raise(OtherError("ValueError"))
                      ELSE Return(parent)
            ELSE LET t == encode(field.type, value[1])
                 IN  IF t.tag = "raise" THEN t
                     ELSE Return(SetAttribute(parent, name, t.value))
      [] field.descriptor = "Element" ->
            IF value = None
            THEN IF field.minOccurs = 0 THEN Return(parent)
                 ELSE Raise(OtherError("ValueError"))
            ELSE RenderChild(field.type, parent, name, value[1])
      [] field.descriptor = "ListElement" ->
            IF ~WithinBounds(field, Len(value))
            THEN Raise(OtherError("CardinalityError"))
            ELSE RenderItems(field, value, 1, parent)
      [] field.descriptor = "Ref" -> RenderRef(field, parent, name, value)

RenderFields(fields, k, obj, parent) ==
    IF k > Len(fields) THEN Return(parent)
    ELSE LET r == render(fields[k].descriptor, parent, fields[k].name,
                         obj.fields[fields[k].name])
         IN  IF r.tag = "raise" THEN r
             ELSE RenderFields(fields, k + 1, obj, r.value)

\* renderInstance(instance, tagName) -> node
renderInstance(name, obj, tagName) ==
    RenderFields(EffectiveFields(name), 1, obj, NewElement(tagName))

\* An instance: its class, and the value of each effective field.
Instance(name, fields) == [class |-> name, fields |-> fields]
NoFields == [n \in {} |-> None]

RECURSIVE parseNode(_, _, _)
RECURSIVE ParseEach(_, _, _, _, _)
RECURSIVE ParseItems(_, _, _, _)

\* The value of the type that a child node holds.
ParseChild(type, child, nil_is_absent) ==
    IF type.codec = "ComplexType"
    THEN parseNode(type.name, child, nil_is_absent)
    ELSE decode(type, child.text)

ParseItems(type, nodes, k, nil_is_absent) ==
    IF k > Len(nodes) THEN Return(<<>>)
    ELSE LET r == ParseChild(type, nodes[k], nil_is_absent)
         IN  IF r.tag = "raise" THEN r
             ELSE LET rest == ParseItems(type, nodes, k + 1, nil_is_absent)
                  IN  IF rest.tag = "raise" THEN rest
                      ELSE Return(<<r.value>> \o rest.value)

\* parse(node) -> value.  nil_is_absent: whether the text "nil" of a nilable
\* attribute is taken for an absent value or decoded as any other text.
parse(field, node, name, nil_is_absent) ==
    CASE field.descriptor = "Attribute" ->
            LET text == GetAttribute(node, name)
            IN  IF text = None THEN Return(None)
                ELSE IF field.nilable /\ text[1] = Nil /\ nil_is_absent
                     THEN Return(None)
                     ELSE LET v == decode(field.type, text[1])
                          IN  IF v.tag = "raise" THEN v
                              ELSE Return(Some(v.value))
      [] field.descriptor = "Element" ->
            LET found == FindAll(node, name)
            IN  IF found = <<>> THEN Return(None)
                ELSE LET v == ParseChild(field.type, found[1], nil_is_absent)
                     IN  IF v.tag = "raise" THEN v ELSE Return(Some(v.value))
      [] field.descriptor = "ListElement" ->
            ParseItems(field.type, FindAll(node, field.tagname), 1, nil_is_absent)
      [] field.descriptor = "Ref" ->
            parseNode(field.type.name, node, nil_is_absent)

ParseEach(fields, k, node, obj, nil_is_absent) ==
    IF k > Len(fields) THEN Return(obj)
    ELSE LET r == parse(fields[k].descriptor, node, fields[k].name, nil_is_absent)
         IN  IF r.tag = "raise" THEN r
             ELSE ParseEach(fields, k + 1, node,
                            [obj EXCEPT !.fields = (fields[k].name :> r.value) @@ @],
                            nil_is_absent)

\* parseNode(node) -> instance
parseNode(name, node, nil_is_absent) ==
    ParseEach(EffectiveFields(name), 1, node, Instance(name, NoFields),
              nil_is_absent)

\* The validly populated instances of a type.
RECURSIVE Instances(_)
RECURSIVE Populated(_, _)

ScalarValues(type) ==
    CASE type.codec = "String" ->
            {PyStr(s) : s \in IF type.enumeration = {} THEN Strings
                              ELSE type.enumeration}
      [] type.codec = "Boolean" -> {PyBool(b) : b \in BOOLEAN}
      [] type.codec = "DateTime" -> DateTimes

TypeValues(type) ==
    IF type.codec = "ComplexType" THEN Instances(type.name)
    ELSE ScalarValues(type)

Values(field) ==
    CASE field.descriptor = "Attribute" ->
            {Some(v) : v \in ScalarValues(field.type)}
                \cup (IF field.use = "OPTIONAL" THEN {None} ELSE {})
      [] field.descriptor = "Element" ->
            {Some(v) : v \in TypeValues(field.type)}
                \cup (IF field.minOccurs = 0 THEN {None} ELSE {})
      [] field.descriptor = "ListElement" ->
            {s \in SeqsUpTo(TypeValues(field.type), MaxItems) :
                Len(s) >= field.minOccurs /\ Len(s) <= field.maxOccurs}
      [] field.descriptor = "Ref" -> Instances(field.type.name)

Populated(fields, k) ==
    IF k > Len(fields) THEN {NoFields}
    ELSE {(fields[k].name :> v) @@ rest :
            v \in Values(fields[k].descriptor), rest \in Populated(fields, k + 1)}

Instances(name) ==
    {Instance(name, f) : f \in Populated(EffectiveFields(name), 1)}

\* The tag an instance is rendered under.
TagName(name) ==
    CASE name = "Flight" -> "flight"
      [] name = "B" -> "inheritance"
      [] name = "B2" -> "inheritance"
      [] name = "Operation" -> "operation"
      [] name = "TBody" -> "body"
      [] name = "Mixed" -> "complexType"
      [] OTHER -> "aircraft"

----------------------------------------------------------------------------
(* The marshal engine as a state machine: an instance is populated,       *)
(* rendered to a node, and the node is parsed back.                       *)

MarshalledTypes ==
    {"Aircraft", "Flight", "B", "B2", "Operation", "TBody", "Mixed"}

InitMarshal ==
    /\ service = Service(ServiceMethods)
    /\ middlewares = <<>>
    /\ constructed = middlewares
    /\ wsdl = init_wsdl(service.schema)
    /\ xsds = init_xsds(service.schema).generated
    /\ threads = <<>>
    /\ instance \in UNION {Instances(name) : name \in MarshalledTypes}
    /\ xmlelement = None
    /\ reparsed = None
    /\ strict_soap_header = TRUE
    /\ request = None
    /\ pc = "populated"
    /\ stages = <<>>
    /\ handler = None
    /\ stack = <<>>
    /\ ret = None
    /\ log = <<>>
    /\ response = None

render_instance ==
    /\ pc = "populated"
    /\ xmlelement' = renderInstance(instance.class, instance, TagName(instance.class))
    /\ pc' = "rendered"
    /\ UNCHANGED <<service, middlewares, strict_soap_header, constructed, wsdl,
                   xsds, threads, instance, reparsed, request, stages, handler,
                   stack, ret, log, response>>

parse_node(nil_is_absent) ==
    /\ pc = "rendered"
    /\ xmlelement.tag = "return"
    /\ reparsed' = parseNode(instance.class, xmlelement.value, nil_is_absent)
    /\ pc' = "parsed"
    /\ UNCHANGED <<service, middlewares, strict_soap_header, constructed, wsdl,
                   xsds, threads, instance, xmlelement, request, stages, handler,
                   stack, ret, log, response>>

NextMarshal ==
    \/ render_instance
    \/ \E nil_is_absent \in BOOLEAN : parse_node(nil_is_absent)

SpecMarshal == InitMarshal /\ [][NextMarshal]_vars

----------------------------------------------------------------------------
(* An instance populated by assignment, as test_mulitylayer_complex does: *)
(* a fresh Flight, assignments that are accepted or rejected, a pilot     *)
(* rendered on its own, the flight rendered, and a flight parsed.         *)

\* Flight(): every field unset, a fresh list for a repeated element and a
\* fresh instance for a group reference.
RECURSIVE New(_)
RECURSIVE Unset(_, _)
Unset(fields, k) ==
    IF k > Len(fields) THEN NoFields
    ELSE LET d == fields[k].descriptor
             v == CASE d.descriptor = "ListElement" -> <<>>
                    [] d.descriptor = "Ref" -> New(d.type.name)
                    [] OTHER -> None
         IN  (fields[k].name :> v) @@ Unset(fields, k + 1)
New(name) == Instance(name, Unset(EffectiveFields(name), 1))

FieldNamed(class, name) ==
    LET fields == EffectiveFields(class)
    IN  fields[CHOOSE k \in 1..Len(fields) : fields[k].name = name].descriptor

\* instance.name = value: the value is checked against the field's type, then
\* stored; a rejected value raises ValueError and stores nothing.
setattr(obj, name, value) ==
    LET type == FieldNamed(obj.class, name).type
        ok == IF type.codec = "ComplexType"
              THEN value.class = type.name
              ELSE value.py = PyClass(type) /\ InEnumeration(type, value.v)
    IN  IF ok
        THEN [outcome |-> Return(None),
              obj |-> [obj EXCEPT !.fields[name] = Some(value)]]
        ELSE [outcome |-> Raise(OtherError("ValueError")), obj |-> obj]

\* Airport.create(type, code)
AirportCreate(type, code) ==
    Instance("Airport", [type |-> Some(PyStr(type)), code |-> Some(PyStr(code))])

PilotNames == {"takeoff_pilot", "landing_pilot"}
PilotTexts == {"ABC", "CAPTAIN", "FIRST_OFFICER"}

\* The assignments made to a flight: name and value.
Assignments ==
    {<<"tail_number", PyStr("LN-KKA")>>}
        \cup {<<n, AirportCreate("IATA", "WAW")>> : n \in {"takeoff_airport", "landing_airport"}}
        \cup {<<n, PyStr(t)>> : n \in PilotNames, t \in PilotTexts}

\* What the last operation on a field was given and what came of it.
Attempt(op, name, value, before, outcome) ==
    [op |-> op, name |-> name, value |-> value, before |-> before,
     outcome |-> outcome]

\* A flight document whose pilots carry the given texts.
FlightXml(takeoff, landing) ==
    Node("flight", <<>>,
         <<Node("tail_number", <<>>, <<>>, "LN-KKA"),
           Node("takeoff_airport", <<>>,
                <<Node("type", <<>>, <<>>, "IATA"), Node("code", <<>>, <<>>, "WAW")>>, ""),
           Node("landing_airport", <<>>,
                <<Node("type", <<>>, <<>>, "ICAO"), Node("code", <<>>, <<>>, "EGLL")>>, ""),
           Node("takeoff_pilot", <<>>, <<>>, takeoff),
           Node("landing_pilot", <<>>, <<>>, landing)>>, "")

InitPopulate ==
    /\ service = Service(ServiceMethods)
    /\ middlewares = <<>>
    /\ constructed = middlewares
    /\ wsdl = init_wsdl(service.schema)
    /\ xsds = init_xsds(service.schema).generated
    /\ threads = <<>>
    /\ instance = New("Flight")
    /\ xmlelement = None
    /\ reparsed = None
    /\ strict_soap_header = TRUE
    /\ request = None
    /\ pc = "populated"
    /\ stages = <<>>
    /\ handler = None
    /\ stack = <<>>
    /\ ret = None
    /\ log = <<>>
    /\ response = None

\* flight.takeoff_pilot = "ABC"
assign(name, value) ==
    /\ pc = "populated"
    /\ LET r == setattr(instance, name, value)
       IN  /\ instance' = r.obj
           /\ ret' = Some(Attempt("setattr", name, value, instance.fields[name],
                                   r.outcome))
    /\ UNCHANGED <<service, middlewares, strict_soap_header, constructed, wsdl,
                   xsds, threads, xmlelement, reparsed, request, pc, stages,
                   handler, stack, log, response>>

\* xsd.Element(Pilot).render(xmlelement, "takeoff_pilot", value)
render_pilot(value) ==
    /\ pc = "populated"
    /\ xmlelement' = render(xsd_Element(Pilot, 0), NewElement("flight"),
                            "takeoff_pilot", Some(value))
    /\ ret' = Some(Attempt("render", "takeoff_pilot", value,
                           instance.fields["takeoff_pilot"], xmlelement'))
    /\ pc' = "field_rendered"
    /\ UNCHANGED <<service, middlewares, strict_soap_header, constructed, wsdl,
                   xsds, threads, instance, reparsed, request, stages, handler,
                   stack, log, response>>

\* Flight.parsexml(XML)
parsexml_flight(takeoff, landing) ==
    /\ pc = "populated"
    /\ xmlelement' = Return(FlightXml(takeoff, landing))
    /\ \E nil_is_absent \in BOOLEAN :
         reparsed' = parseNode("Flight", FlightXml(takeoff, landing), nil_is_absent)
    /\ pc' = "parsed"
    /\ UNCHANGED <<service, middlewares, strict_soap_header, constructed, wsdl,
                   xsds, threads, instance, request, stages, handler, stack, ret,
                   log, response>>

NextPopulate ==
    \/ \E a \in Assignments : assign(a[1], a[2])
    \/ \E t \in PilotTexts : render_pilot(PyStr(t))
    \/ render_instance
    \/ \E takeoff, landing \in PilotTexts : parsexml_flight(takeoff, landing)

SpecPopulate == InitPopulate /\ [][NextPopulate]_vars

----------------------------------------------------------------------------
(* A repeated element rendered on its own, as ListElementTest does: a     *)
(* descriptor, a parent node and a list of a length inside or outside the *)
(* descriptor's bounds.                                                   *)

\* xsd.ListElement(xsd.String, "passanger", maxOccurs=.., minOccurs=..)
ListFields ==
    {xsd_ListElement(String, "passanger", lo, hi) :
        lo \in 0..2, hi \in {2, MaxOccurs}}

Repeat(v, n) == [i \in 1..n |-> v]

\* Every short list, and the lists of one passenger up to one past maxOccurs.
ItemLists ==
    SeqsUpTo({PyStr(s) : s \in Strings}, MaxItems + 1)
        \cup {Repeat(PyStr("abc"), n) : n \in 0..(MaxOccurs + 1)}

\* The call descriptor.render(xmlelement, name, value) about to be made.
Call(descriptor, name, value) ==
    [descriptor |-> descriptor, name |-> name, value |-> value]

InitRender ==
    /\ service = Service(ServiceMethods)
    /\ middlewares = <<>>
    /\ constructed = middlewares
    /\ wsdl = init_wsdl(service.schema)
    /\ xsds = init_xsds(service.schema).generated
    /\ threads = <<>>
    /\ instance \in {Call(f, f.tagname, items) : f \in ListFields, items \in ItemLists}
    /\ xmlelement = Return(NewElement("flight"))
    /\ reparsed = None
    /\ strict_soap_header = TRUE
    /\ request = None
    /\ pc = "element"
    /\ stages = <<>>
    /\ handler = None
    /\ stack = <<>>
    /\ ret = None
    /\ log = <<>>
    /\ response = None

\* passangers.render(xmlelement, "passanger", passangers_list)
render_field ==
    /\ pc = "element"
    /\ xmlelement' = render(instance.descriptor, xmlelement.value, instance.name,
                            instance.value)
    /\ pc' = "field_rendered"
    /\ UNCHANGED <<service, middlewares, strict_soap_header, constructed, wsdl,
                   xsds, threads, instance, reparsed, request, stages, handler,
                   stack, ret, log, response>>

NextRender == render_field

SpecRender == InitRender /\ [][NextRender]_vars

----------------------------------------------------------------------------
(* Properties. *)

Range(q) == {q[i] : i \in 1..Len(q)}
Ran(stage) == stage \in Range(stages)

\* The response handed back is a fault envelope built from error `e`.
IsFaultResponse(resp, e) ==
    /\ resp.class = "SOAPResponse"
    /\ resp.soap_body = e
    /\ resp.http_status_code = 500
    /\ resp.http_content = Some(get_error_response(e.code, e.message, resp.soap_header))

IsValidationFault(e) ==
    /\ e.class = "SOAPError"
    /\ e.code = "CLIENT"
    /\ e.message.fmt = "%r"
    /\ e.message.arg.class = "DocumentInvalid"

\* No method of the service declares the request's action.
ActionMatchesNoMethod ==
    /\ Truthy(Req.soap_action)
    /\ \A k \in 1..Len(service.methods) :
         service.methods[k].soapAction # Req.soap_action

BodyInvalid ==
    /\ Req.http_content.kind = "envelope"
    /\ Req.http_content.Body # None
    /\ ~Req.http_content.Body[1].valid

\* C1: the stages of a POST request run in the order PARSE_ENVELOPE,
\* CHECK_BODY_PRESENT, VALIDATE, ROUTE, PARSE_HEADER, PARSE_BODY, INVOKE,
\* MARSHAL_RESPONSE, each only after every earlier one succeeded (a failure
\* ends the sequence with the fault response); a request whose body fails
\* validation and whose action matches no method gets the validation fault
\* and is never routed.
C1_StageOrder ==
    request # None =>
      /\ \A i \in 1..Len(stages) :
           \/ i <= Len(StageOrder) /\ stages[i] = StageOrder[i]
           \/ i = Len(stages) /\ stages[i] = "FAULT"
      /\ Ran("CHECK_BODY_PRESENT") => parsexml(Req.http_content).tag = "return"
      /\ Ran("VALIDATE") => Req.envelope # None /\ Env.Body # None
      /\ Ran("ROUTE") => validate_input(Env, strict_soap_header).tag = "return"
      /\ Ran("PARSE_HEADER") => Req.method \in 1..Len(service.methods)
      /\ (Ran("PARSE_BODY")
            /\ HeaderType(RoutedMethod, service, Env.Header) # None)
           => Req.soap_header # None
      /\ Ran("INVOKE") => Req.soap_body # None
      /\ Ran("MARSHAL_RESPONSE") =>
           /\ Ran("INVOKE")
           /\ response[1].class = "SOAPResponse"
           /\ response[1].soap_body.class # "SOAPError"
      /\ (pc = "responded" /\ BodyInvalid /\ ActionMatchesNoMethod) =>
           /\ ~Ran("ROUTE")
           /\ IsValidationFault(response[1].soap_body)
           /\ IsFaultResponse(response[1], response[1].soap_body)

\* C1 witness: a request with an invalid body and the unknown action a3 has
\* been answered with the validation fault after three stages.
C1_Witness ==
    /\ pc = "responded"
    /\ BodyInvalid
    /\ Req.soap_action = Some(A3)
    /\ ActionMatchesNoMethod
    /\ stages = <<"PARSE_ENVELOPE", "CHECK_BODY_PRESENT", "VALIDATE", "FAULT">>
    /\ IsValidationFault(response[1].soap_body)

----------------------------------------------------------------------------
(* Routing properties (SpecRoute). *)

BodyChild == Env.Body[1].el

\* The least index in a set of method indices, 0 for the empty set.
MinOrZero(S) == IF S = {} THEN 0 ELSE CHOOSE k \in S : \A j \in S : k <= j

DeclaresAction(a) ==
    {k \in 1..Len(service.methods) : service.methods[k].soapAction = a}
DeclaresInput(name) ==
    {k \in 1..Len(service.methods) : service.methods[k].input = InputName(name)}

\* Routing ended without a method and with the client fault.
RoutingFault ==
    /\ Req.method = 0
    /\ IsSOAPError(ret[1])
    /\ ret[1].exc.code = "CLIENT"

\* C2 as stated, for a body child that is in a namespace: an extracted
\* action, the empty string included, selects the first method declaring
\* exactly that action and the root tag is not consulted; only an absent
\* action selects by the unqualified tag of the body's child.
C2_Original ==
    (request # None /\ Ran("ROUTE") /\ BodyChild.ns # None) =>
      LET ref == IF Req.soap_action # None
                 THEN MinOrZero(DeclaresAction(Req.soap_action))
                 ELSE MinOrZero(DeclaresInput(BodyChild.local))
      IN  /\ Req.method = ref
          /\ ref = 0 => RoutingFault

\* C2 (amended): a non-empty extracted action selects the first method (in
\* service order) declaring exactly that action, the root tag is not
\* consulted and there is no fallback to it; an absent or empty action
\* selects the first method whose declared input name equals the unqualified
\* tag of the body's child when the child is in a namespace, and raises a
\* KeyError when it is in none.
C2_Routing ==
    (request # None /\ Ran("ROUTE")) =>
      IF Truthy(Req.soap_action)
      THEN /\ Req.method = MinOrZero(DeclaresAction(Req.soap_action))
           /\ Req.method = 0 => RoutingFault
      ELSE IF BodyChild.ns # None
      THEN /\ Req.method = MinOrZero(DeclaresInput(BodyChild.local))
           /\ Req.method = 0 => RoutingFault
      ELSE /\ Req.method = 0
           /\ pc = "raised"
           /\ ret[1] = Raise(OtherError("KeyError"))

\* C2 witness: methods with actions a1 / a2, no action in the request and a
\* root tag equal to the second method's input: the second method is chosen.
C2_Witness ==
    /\ Ran("ROUTE")
    /\ Len(service.methods) = 2
    /\ service.methods[1].soapAction = Some(A1)
    /\ service.methods[1].input = InputName(I1)
    /\ service.methods[2].soapAction = Some(A2)
    /\ service.methods[2].input = InputName(I2)
    /\ Req.soap_action = None
    /\ BodyChild = Element(Some(Ns), I2)
    /\ Req.method = 2
    /\ pc = "parse_header"

\* C3: when routing finds no method, the client fault has the "invalid
\* action" form exactly when the lookup went by action (and then carries the
\* action) and the "missing action and invalid root tag" form exactly when
\* it went by root tag, for every extracted action, '' and None included.
C3_FaultMessage ==
    (request # None /\ Ran("ROUTE") /\ RoutingFault) =>
      LET msg == ret[1].exc.message
          by_action == ~UsesRootTag(Req.soap_action)
      IN  /\ (msg.fmt = "Invalid soap action '%s'") <=> by_action
          /\ (msg.fmt = "Missing soap action and invalid root tag '%s'")
               <=> ~by_action
          /\ by_action => msg.arg = Req.soap_action[1]
          /\ ~by_action => msg.arg = BodyChild.local

----------------------------------------------------------------------------
(* Middleware chain properties (SpecChain). *)

IsPrefix(a, b) == Len(a) <= Len(b) /\ SubSeq(b, 1, Len(a)) = a

Event(ev, mw, depth) == [ev |-> ev, mw |-> mw, depth |-> depth]
Events(ev) == {i \in 1..Len(log) : log[i].ev = ev}

\* The chain has come back to handle_soap_request.
ChainDone == Ran("INVOKE") /\ pc \in {"marshal", "responded", "raised"}

\* C4 as stated: the handler every request runs is the composition of the
\* middleware list as it was when the dispatcher was constructed.
C4_Original ==
    handler # None => handler[1] = middleware(constructed, 0)

\* C4 (amended): the middleware list is composed into a single handler once
\* per request, when the request reaches INVOKE, from the list as it is at
\* that moment; no handler is kept from construction or from an earlier
\* request.
C4_ComposedPerRequest ==
    /\ handler # None <=> Ran("INVOKE")
    /\ handler # None =>
         /\ handler[1] = middleware(middlewares, 0)
         /\ Events("compose") = {1}

\* C4 witness: a dispatcher constructed with no middleware has answered a
\* request with the response of a middleware appended afterwards.
C4_Witness ==
    /\ pc = "responded"
    /\ constructed = <<>>
    /\ wsdl = init_wsdl(service.schema)
    /\ xsds = init_xsds(service.schema).generated
    /\ threads = <<>>
    /\ instance = None /\ xmlelement = None /\ reparsed = None
    /\ middlewares = <<"short">>
    /\ handler = Some(middleware(<<"short">>, 0))
    /\ response[1].soap_body = Object(RsName, "middleware", 0)

\* What the log of a chain of n middlewares that all call next_call once is:
\* the composition, n entries in list order, the method, n returns in
\* reverse order.
ExpectedLog(list) ==
    LET n == Len(list)
    IN  [j \in 1..(2 * n + 2) |->
           IF j = 1 THEN Event("compose", "", 0)
           ELSE IF j <= n + 1 THEN Event("enter", list[j - 1], j - 2)
           ELSE IF j = n + 2 THEN Event("method", "", n)
           ELSE Event("return", list[2 * n + 3 - j], 2 * n + 2 - j)]

\* C5: when every middleware of the list calls next_call once, middleware i
\* is entered with the composition of middlewares i+1.. and the terminal
\* handler as next_call: the middlewares are entered in list order, the
\* method's function is called once, after all of them, and the calls
\* return in reverse order; with an empty list the method is called
\* directly.
C5_ChainOrder ==
    (handler # None /\ \A i \in 1..Len(middlewares) :
                         middlewares[i] \in {"next", "wrap"}) =>
      /\ IsPrefix(log, ExpectedLog(middlewares))
      /\ ChainDone => log = ExpectedLog(middlewares)
      /\ \A j \in 1..Len(stack) :
           /\ stack[j].fn = middlewares[j]
           /\ stack[j].next_call = middleware(middlewares, j)

\* C5 witness: a chain of two middlewares has run to the end.
C5_Witness ==
    /\ pc = "responded"
    /\ middlewares = <<"next", "wrap">>
    /\ log = ExpectedLog(middlewares)
    /\ Cardinality(Events("method")) = 1

\* The first middleware of a list that does not call next_call, 0 if none.
FirstStop(list) ==
    MinOrZero({i \in 1..Len(list) : list[i] \notin {"next", "wrap"}})

\* The marks the wrapping middlewares before position i leave on a response
\* on its way back, innermost first.
RECURSIVE Vias(_, _)
Vias(list, j) ==
    IF j = 0 THEN <<>>
    ELSE (IF list[j] = "wrap" THEN <<j - 1>> ELSE <<>>) \o Vias(list, j - 1)

\* C6: if middleware i answers without calling next_call, no later
\* middleware and not the method's function is called for that request, and
\* the response marshalled is the one middleware i returned, as handed back
\* through middlewares 0..i-1.
C6_ShortCircuit ==
    LET i == FirstStop(middlewares)
    IN  (handler # None /\ i # 0 /\ middlewares[i] = "short") =>
          /\ Events("method") = {}
          /\ \A k \in Events("enter") : log[k].depth <= i - 1
          /\ pc # "raised"
          /\ pc \in {"marshal", "responded"} =>
               /\ response[1].soap_body = Object(RsName, "middleware", i - 1)
               /\ response[1].via = Vias(middlewares, i - 1)
          /\ pc = "responded" =>
               /\ response[1].http_status_code = 200
               /\ response[1].http_content =
                    Some(EnvelopeResponse(RoutedMethod.output.name,
                                          Object(RsName, "middleware", i - 1),
                                          None))

\* C6 witness: the second of two middlewares answered itself and the first
\* handed its response back.
C6_Witness ==
    /\ pc = "responded"
    /\ middlewares = <<"wrap", "short">>
    /\ response[1].soap_body = Object(RsName, "middleware", 1)
    /\ response[1].via = <<0>>
    /\ Events("enter") = {2, 3}

----------------------------------------------------------------------------
(* Fault handling properties (Spec, SpecValidate). *)

LastStage == stages[Len(stages)]

\* The last stage executed, one before INVOKE, raised a SOAPError.
PreInvokeFault ==
    /\ request # None
    /\ ~Ran("INVOKE")
    /\ ret # None
    /\ IsSOAPError(ret[1])

\* The request is one whose envelope, body or validation is at fault, or
\* whose routing finds no method, and the stage in question has run.
FaultyInput ==
    /\ request # None
    /\ \/ Ran("PARSE_ENVELOPE") /\ Req.http_content.kind = "malformed"
       \/ Ran("CHECK_BODY_PRESENT") /\ Req.http_content.Body = None
       \/ Ran("VALIDATE") /\ validate_input(Env, strict_soap_header).tag = "raise"
       \/ /\ Ran("ROUTE")
          /\ IF Truthy(Req.soap_action)
             THEN DeclaresAction(Req.soap_action) = {}
             ELSE BodyChild.ns # None /\ DeclaresInput(BodyChild.local) = {}

\* C7: a fault raised in a stage before INVOKE (malformed envelope, missing
\* body, validation failure, routing failure, a SOAPError of a parser) is
\* caught and becomes exactly one fault envelope with status 500; no
\* middleware and no method function is called and no stage runs twice.
C7_FaultsCaught ==
    /\ FaultyInput => PreInvokeFault
    /\ PreInvokeFault =>
         /\ pc \in {"marshal", "responded"}
         /\ pc = "marshal" => response = Some(ret[1].exc)
         /\ pc = "responded" =>
              /\ IsFaultResponse(response[1], ret[1].exc)
              /\ response[1].content_type = Some(ContentType)
              /\ {i \in 1..Len(stages) : stages[i] = "FAULT"} = {Len(stages)}
         /\ log = <<>>
         /\ handler = None
         /\ Cardinality(Range(stages)) = Len(stages)

\* C7 witness: a request with the unknown action a3 has been answered with
\* the routing fault.
C7_Witness ==
    /\ pc = "responded"
    /\ stages = <<"PARSE_ENVELOPE", "CHECK_BODY_PRESENT", "VALIDATE", "ROUTE", "FAULT">>
    /\ response[1].http_status_code = 500
    /\ response[1].soap_body.message = Format("Invalid soap action '%s'", A3)
    /\ log = <<>>

\* C8: an error raised while the header or the body is parsed, a failed
\* lookup of the method's input element name included, becomes a client
\* fault response; no exception leaves handle_soap_request.
C8_ParseErrorsAreFaults ==
    (request # None /\ stages # <<>>
       /\ LastStage \in {"PARSE_HEADER", "PARSE_BODY"}
       /\ ret[1].tag = "raise") =>
      /\ pc = "marshal"
      /\ response # None
      /\ response[1].class = "SOAPError"
      /\ response[1].code = "CLIENT"

\* C9: whatever strict_soap_header is, no request gets past validation
\* unless its body passed the schema validator, and a request whose body
\* fails it ends in a client fault without the method's function being
\* called.
C9_BodyAlwaysValidated ==
    request # None =>
      /\ Ran("ROUTE") => Env.Body[1].valid
      /\ (Ran("VALIDATE") /\ BodyInvalid) =>
           /\ pc \in {"marshal", "responded"}
           /\ log = <<>>
           /\ pc = "responded" =>
                /\ IsValidationFault(response[1].soap_body)
                /\ IsFaultResponse(response[1], response[1].soap_body)

\* C9 witness: in permissive mode, a request whose header child failed the
\* schema validator (ignored) and whose body failed it too has been answered
\* with the fault for the body.
C9_Witness ==
    /\ pc = "responded"
    /\ ~strict_soap_header
    /\ Req.http_content.kind = "envelope"
    /\ Req.http_content.Header = Some(<<HeaderChild(Some(Ns), FALSE)>>)
    /\ BodyInvalid
    /\ response[1].soap_body.message.fmt = "%r"
    /\ response[1].soap_body.message.arg = DocumentInvalid("Body", 0)
    /\ response[1].http_status_code = 500

\* The header children that are outside the addressing namespace and fail
\* the schema validator.
IgnorableChildren(children) ==
    {k \in 1..Len(children) : children[k].ns # Some(WsaNs) /\ ~children[k].schema}

\* The same children, those made valid.
Repaired(children) ==
    [k \in 1..Len(children) |->
       IF k \in IgnorableChildren(children)
       THEN [children[k] EXCEPT !.schema = TRUE] ELSE children[k]]

\* C10: with a header child outside the addressing namespace that fails the
\* schema validator, validation ends in a client fault in strict mode; in
\* permissive mode it ends exactly as it does for the same envelope with
\* that child valid: the other children and the body are validated, and the
\* request goes on to routing if they pass.
C10_HeaderStrictness ==
    (request # None /\ stages # <<>> /\ LastStage = "VALIDATE"
       /\ Env.Header # None /\ IgnorableChildren(Env.Header[1]) # {}) =>
      IF strict_soap_header
      THEN /\ pc = "marshal"
           /\ IsValidationFault(response[1])
           /\ response[1].message.arg.part = "Header"
      ELSE LET repaired == Envelope(Some(Repaired(Env.Header[1])), Env.Body)
               as_if == ValidateStage(repaired, FALSE)
           IN  IF as_if.tag = "return"
               THEN pc = "route" /\ response = None
               ELSE pc = "marshal" /\ response = Some(as_if.exc)

\* C10 witness: in permissive mode a request whose first header child failed
\* the schema validator and whose second child passed the addressing
\* validator goes on to routing.
C10_Witness ==
    /\ pc = "route"
    /\ ~strict_soap_header
    /\ LastStage = "VALIDATE"
    /\ Env.Header = Some(<<HeaderChild(Some(Ns), FALSE), HeaderChild(Some(WsaNs), TRUE)>>)
    /\ Env.Body[1].valid
    /\ response = None

\* The header children in the addressing namespace.
AddressingChildren(children) ==
    {k \in 1..Len(children) : children[k].ns = Some(WsaNs)}

\* C25: a header child in the addressing namespace is checked by the
\* addressing validator and not by the schema validator: if one of them
\* fails the addressing validator, validation ends in a client fault for the
\* header, in strict and in permissive mode alike; if all of them pass it,
\* the outcome is the one of the same envelope with those children also
\* passing the schema validator, whatever the schema validator says of them.
C25_AddressingChildren ==
    (request # None /\ stages # <<>> /\ LastStage = "VALIDATE"
       /\ Env.Header # None /\ AddressingChildren(Env.Header[1]) # {}) =>
      LET children == Env.Header[1]
          wsa_children == AddressingChildren(children)
      IN  IF \E k \in wsa_children : ~children[k].wsa
          THEN /\ pc = "marshal"
               /\ IsValidationFault(response[1])
               /\ response[1].message.arg.part = "Header"
          ELSE LET agreed == [k \in 1..Len(children) |->
                                IF k \in wsa_children
                                THEN HeaderChild(children[k].ns, TRUE)
                                ELSE children[k]]
                   as_if == ValidateStage(Envelope(Some(agreed), Env.Body),
                                          strict_soap_header)
               IN  /\ as_if.tag = "return" => (pc = "route" /\ response = None)
                   /\ as_if.tag = "raise" =>
                        (pc = "marshal" /\ response = Some(as_if.exc))
                   /\ (\A k \in 1..Len(children) :
                            k \notin wsa_children => children[k].schema)
                        /\ Env.Body[1].valid
                        => pc = "route"

\* C25 witness: in permissive mode, a request whose header child in the
\* addressing namespace passes the schema validator and fails the addressing
\* validator has got a client fault.
C25_Witness ==
    /\ pc = "marshal"
    /\ ~strict_soap_header
    /\ LastStage = "VALIDATE"
    /\ Env.Header = Some(<<CheckedChild(Some(WsaNs), FALSE, TRUE)>>)
    /\ Env.Body[1].valid
    /\ IsValidationFault(response[1])

----------------------------------------------------------------------------
(* Response assembly properties (SpecAssemble). *)

\* The value the middleware chain handed back to handle_soap_request.
ChainValue == ret[1].value
ChainBody ==
    IF ChainValue.class = "SOAPResponse" THEN ChainValue.soap_body ELSE ChainValue
ChainHeader ==
    IF ChainValue.class = "SOAPResponse" THEN ChainValue.soap_header ELSE None
ChainReturned ==
    /\ Ran("INVOKE")
    /\ pc \in {"marshal", "responded", "raised"}
    /\ ret[1].tag = "return"

\* C11: if the chain's result is a SOAPError, bare or as the body of a
\* SOAPResponse, the response is the fault envelope built from the error's
\* code and message and the response's header, with status 500; a result
\* that is no SOAPResponse is wrapped in one first.
C11_ErrorValueIsFault ==
    /\ (pc = "return" /\ Events("method") # {} /\ ret[1].tag = "return") =>
          ret[1].value.class = "SOAPResponse"
    /\ (ChainReturned /\ ChainBody.class = "SOAPError") =>
         /\ pc # "raised"
         /\ pc = "responded" =>
              /\ response[1].class = "SOAPResponse"
              /\ response[1].soap_body = ChainBody
              /\ response[1].soap_header = ChainHeader
              /\ response[1].http_status_code = 500
              /\ response[1].http_content =
                   Some(get_error_response(ChainBody.code, ChainBody.message,
                                           ChainHeader))
              /\ stages[Len(stages)] = "FAULT"
    /\ (ChainReturned /\ pc = "responded" /\ ChainValue.class # "SOAPResponse") =>
         /\ response[1].class = "SOAPResponse"
         /\ response[1].soap_body = ChainValue
         /\ response[1].soap_header = None

\* C11 witness: a middleware handed back a bare SOAPError and the request
\* was answered with the fault envelope.
C11_Witness ==
    /\ pc = "responded"
    /\ middlewares = <<"answer">>
    /\ ChainValue.class = "SOAPError"
    /\ response[1].http_status_code = 500
    /\ response[1].http_content =
         Some(get_error_response("SERVER", Format("failed", EmptyStr), None))

\* C12: every response to a POST request carries the protocol version's
\* content type, whatever the chain put there, and every response whose body
\* is no SOAPError has status 200.
C12_UniformAssembly ==
    pc = "responded" =>
      /\ response[1].content_type = Some(ContentType)
      /\ response[1].soap_body.class # "SOAPError" =>
           response[1].http_status_code = 200

\* C13: the root tag of a success envelope is the method's output name when
\* the output is a name, and otherwise the uncapitalized type name of the
\* object marshalled as the envelope's body.
C13_ResponseTag ==
    (pc = "responded" /\ stages[Len(stages)] = "MARSHAL_RESPONSE") =>
      LET env == response[1].http_content[1]
      IN  /\ env.body = response[1].soap_body
          /\ env.tagname =
               IF RoutedMethod.output.kind = "str"
               THEN RoutedMethod.output.name
               ELSE uncapitalize(response[1].soap_body.type_name)

----------------------------------------------------------------------------
(* Exceptions of the chain (SpecChain). *)

\* C14: an exception raised by the method's function or by a middleware is
\* not turned into a fault response: it passes through the middlewares
\* above it and leaves handle_soap_request, and no response is produced
\* for the request.
C14_ChainExceptionsPropagate ==
    (Ran("INVOKE") /\ ret # None /\ ret[1].tag = "raise") =>
      /\ pc \in {"return", "raised"}
      /\ response = None
      /\ stages[Len(stages)] = "INVOKE"
      /\ pc = "raised" => stack = <<>>

\* C14 witness: the function raised below a wrapping middleware and the
\* exception has left handle_soap_request.
C14_Witness ==
    /\ pc = "raised"
    /\ middlewares = <<"wrap">>
    /\ Events("method") # {}
    /\ ret[1] = Raise(OtherError("Exception"))
    /\ response = None

----------------------------------------------------------------------------
(* Entry point properties (SpecDispatch). *)

Environ == Req.environ
Answered == request # None /\ pc \in {"responded", "raised"}
IsGet == Environ.REQUEST_METHOD = "GET"

\* The documents self.xsds holds.
SubSchemas == {xsds[k].value : k \in 1..Len(xsds)}

\* C15: the entry point depends on the method and the query string alone: a
\* GET with 'wsdl' in the query gets the self-description document, also
\* with 'xsd=' in the query; a GET with 'xsd=' (and the location of a
\* sub-schema) gets a sub-schema; a POST
\* runs the pipeline whatever the query; every other request gets the
\* status-400 text/plain response, no middleware or function being called.
C15_EntryPoints ==
    Answered =>
      IF IsGet /\ Contains(WsdlWord, Environ.QUERY_STRING)
      THEN /\ pc = "responded"
           /\ response[1].soap_body = Str(WsdlWord)
           /\ response[1].http_content[1].bytes \in
                {wsdl.bytes, [format |-> wsdl.bytes, scheme |-> "http", host |-> "h"]}
           /\ response[1].http_status_code = 200
           /\ response[1].content_type = Some(TextXml)
           /\ log = <<>> /\ stages = <<>>
      ELSE IF IsGet /\ Contains(XsdEquals, Environ.QUERY_STRING)
      THEN (\E loc \in DictKeys(xsds) :
                Environ.QUERY_STRING = XsdEquals \o loc) =>
             /\ pc = "responded"
             /\ response[1].http_content[1] \in SubSchemas
             /\ log = <<>> /\ stages = <<>>
      ELSE IF Environ.REQUEST_METHOD = "POST"
      THEN Ran("PARSE_ENVELOPE")
      ELSE /\ pc = "responded"
           /\ response[1] = BadRequest
           /\ response[1].http_status_code = 400
           /\ response[1].content_type = Some(TextPlain)
           /\ log = <<>> /\ stages = <<>> /\ handler = None

\* C16: a GET request with the query xsd=<loc>, <loc> being the location of
\* a sub-schema generated at construction, is answered with that
\* sub-schema's document, status 200 and content type text/xml.
C16_SubSchemaServed ==
    (Answered /\ IsGet
       /\ \E loc \in DictKeys(xsds) : Environ.QUERY_STRING = XsdEquals \o loc) =>
      LET loc == SubSeq(Environ.QUERY_STRING, Len(XsdEquals) + 1,
                        Len(Environ.QUERY_STRING))
      IN  /\ pc = "responded"
          /\ response[1].http_content = Some(DictGet(xsds, loc))
          /\ response[1].http_status_code = 200
          /\ response[1].content_type = Some(TextXml)

----------------------------------------------------------------------------
(* Construction properties (SpecConstruct). *)

\* The calls of generate_xsd so far.
Calls == {k \in 1..Len(log) : log[k].ev = "generate_xsd"}

\* The schemas reached from the service's schema by one reference or more.
RECURSIVE ReachedFrom(_, _)
ReachedFrom(g, seen) ==
    LET more == seen \cup UNION {Range(Chain(g[i])) : i \in seen}
    IN  IF more = seen THEN seen ELSE ReachedFrom(g, more)
Referred(g) == ReachedFrom(g, Range(Chain(g[0])))

\* No two schemas of the graph have the same location.
DistinctLocations(g) ==
    \A i, j \in SchemaIds : g[i].location = g[j].location => i = j

\* The dispatcher is constructed and has generated its sub-schemas itself.
GeneratedItself == pc = "idle" /\ xsds # CustomXsds

\* C17: whatever the import/include graph (tree, diamond, cycle),
\* generate_xsd is called at most once per location, and the mapping that
\* results holds one document per location (with one location per schema:
\* one document for every schema referred to).
C17_OncePerLocation ==
    /\ pc \in {"new", "generate", "idle"} =>
         /\ \A j, k \in Calls : log[j].location = log[k].location => j = k
         /\ \A j, k \in 1..Len(xsds) : xsds[j].key = xsds[k].key => j = k
    /\ (pc = "generate" \/ GeneratedItself) =>
         DictKeys(xsds) = {log[k].location : k \in Calls}
    /\ GeneratedItself =>
         /\ Len(xsds) = Cardinality(DictKeys(xsds))
         /\ Len(log) = Len(xsds)
         /\ DistinctLocations(service.schema) =>
              DictKeys(xsds) =
                {service.schema[i].location : i \in Referred(service.schema)}

\* C17 witness: schemas 0 and 1 both refer to schema 2, which refers back to
\* schema 1; two documents were generated.
C17_Witness ==
    /\ GeneratedItself
    /\ service.schema =
         SchemaGraph([i \in SchemaIds |->
                        CASE i = 0 -> {1, 2} [] i = 1 -> {2} [] i = 2 -> {1}
                          [] OTHER -> {}], 1, FALSE)
    /\ Len(log) = 2
    /\ DictKeys(xsds) = {Location(1), Location(2)}

\* The references of schema i, rewritten once.
RewrittenOnce(g, i) ==
    [k \in 1..Len(Chain(g[i])) |->
       [tag |-> IF k <= Len(g[i].imports) THEN "xsd:import" ELSE "xsd:include",
        schemaLocation |-> XsdQuery \o g[Chain(g[i])[k]].location]]

\* C18: in the self-description document and in every sub-schema the
\* dispatcher generates, the schemaLocation of each import and include is
\* '?xsd=' followed by the location referred to: none is left as it was and
\* none is prefixed twice.
C18_LocationsRewritten ==
    /\ (pc \in {"generate", "idle"} /\ wsdl # CustomWsdl) =>
         wsdl.bytes.elements = RewrittenOnce(service.schema, 0)
    /\ (pc = "generate" \/ GeneratedItself) =>
         \A k \in 1..Len(xsds) :
            xsds[k].value.bytes.elements =
              RewrittenOnce(service.schema, xsds[k].value.bytes.schema)

\* C18 witness: the service's schema imports schema 1 and includes schema
\* 2, schema 1 imports schema 2; all three documents are generated.
C18_Witness ==
    /\ GeneratedItself
    /\ wsdl # CustomWsdl
    /\ service.schema =
         SchemaGraph([i \in SchemaIds |->
                        CASE i = 0 -> {1, 2} [] i = 1 -> {2} [] OTHER -> {}],
                     1, FALSE)
    /\ wsdl.bytes.elements =
         << [tag |-> "xsd:import", schemaLocation |-> XsdQuery \o Location(1)],
            [tag |-> "xsd:include", schemaLocation |-> XsdQuery \o Location(2)] >>
    /\ Len(xsds) = 2

\* The schemas a schema refers to, by import or by include.
References(g, i) == Range(g[i].imports) \cup Range(g[i].includes)

\* The schemas reachable from the service's schema through one reference
\* or more (the service's schema itself if a cycle leads back to it).
RECURSIVE ReachableFrom(_, _)
ReachableFrom(g, seen) ==
    LET more == seen \cup UNION {References(g, i) : i \in seen}
    IN  IF more = seen THEN seen ELSE ReachableFrom(g, more)
ReachableLocations(g) ==
    {g[i].location : i \in ReachableFrom(g, References(g, 0))}

\* Every call of _generate_xsds in progress, but the first, is for a schema
\* whose location is already recorded; and no more calls are nested than
\* there are locations.
RecordedBeforeRecursing ==
    pc = "generate" =>
        /\ \A d \in 2..Len(stack) :
              Generated(xsds, service.schema[stack[d].schema].location)
        /\ Len(stack) <= 1 + Cardinality(ReachableLocations(service.schema))

\* C26 as stated: generation terminates for every import/include graph,
\* cyclic ones and cycles through the service's schema included, a location
\* being recorded before the walk recurses into its schema; and the
\* locations generated are exactly the locations reachable from the
\* service's schema through one or more references.
C26_ExactlyReachable ==
    /\ <>(pc = "idle")
    /\ [](RecordedBeforeRecursing
           /\ (GeneratedItself =>
                 DictKeys(xsds) = ReachableLocations(service.schema)))

\* C26 amended: generation terminates for every import/include graph, a
\* location being recorded before the walk recurses into its schema; every
\* location generated is reachable from the service's schema, and the
\* locations generated are exactly the reachable ones when no two schemas
\* carry the same location (a schema whose location is already recorded is
\* skipped with all it refers to, even if it is another schema).
C26_Generation ==
    /\ <>(pc = "idle")
    /\ [](RecordedBeforeRecursing
           /\ (GeneratedItself =>
                 /\ DictKeys(xsds) \subseteq ReachableLocations(service.schema)
                 /\ DistinctLocations(service.schema) =>
                      DictKeys(xsds) = ReachableLocations(service.schema)))

\* C26 witness: the service's schema refers to schema 1, which refers to
\* schema 2, which refers back to the service's schema; generation has
\* ended with the three locations.
C26_Witness ==
    /\ GeneratedItself
    /\ service.schema =
         SchemaGraph([i \in SchemaIds |->
                        CASE i = 0 -> {1} [] i = 1 -> {2} [] i = 2 -> {0}
                          [] OTHER -> {}], 1, FALSE)
    /\ DictKeys(xsds) = {Location(0), Location(1), Location(2)}

----------------------------------------------------------------------------
(* Concurrency properties (SpecConcurrent). *)

\* The calls of dispatch in progress, the running one and the suspended.
AllContexts == {Context} \cup Range(threads)

\* What a call of dispatch holds was computed from its own request: the
\* envelope, the routed method, the parsed header and body, the response.
OwnOutcome(c) ==
    c.request # None =>
      LET r == c.request[1]
          method == service.methods[r.method]
      IN  /\ r.envelope # None => r.envelope = Some(r.http_content)
          /\ r.method # 0 =>
               find_handler_for_request(service.methods, r.soap_action,
                                        r.http_content.Body[1].el) = Return(r.method)
          /\ r.soap_header # None =>
               r.soap_header[1] =
                 [as |-> HeaderType(method, service, r.http_content.Header)[1],
                  of |-> r.http_content.Header[1]]
          /\ r.soap_body # None =>
               r.soap_body[1] = [as |-> method.input.name,
                                 of |-> r.http_content.Body[1].el]
          /\ (c.pc = "responded" /\ r.environ.REQUEST_METHOD = "POST"
                /\ c.response[1].soap_body.class = "Object") =>
               c.response[1].http_content[1].tagname = method.output.name
          /\ (c.pc = "responded" /\ r.environ.REQUEST_METHOD = "GET") =>
               c.response[1].http_content = Some(wsdl)

\* C19: handling requests changes nothing of what the dispatcher shares
\* between them (service, self-description document, sub-schemas,
\* middleware list, strict-header flag); a step of one request leaves what
\* the other requests hold untouched, and the routed method, the parsed
\* header and body and the response of every request are those of that
\* request, whatever the interleaving.
C19_NoSharedRequestState ==
    [][ /\ UNCHANGED <<service, middlewares, strict_soap_header, wsdl, xsds>>
        /\ threads' # threads => AllContexts' = AllContexts
        /\ \A c \in AllContexts' : OwnOutcome(c) ]_vars

\* C19 witness: a request for method 1 has been answered while a request
\* for method 2, routed already, waits to have its body parsed.
C19_Witness ==
    /\ pc = "responded"
    /\ Req.method = 1
    /\ response[1].soap_body.class = "Object"
    /\ response[1].http_content[1].tagname = O1
    /\ threads[1].pc = "parse_input"
    /\ threads[1].request[1].method = 2


----------------------------------------------------------------------------
(* Marshal engine properties (SpecMarshal). *)

\* C20: the round-trip law: once the node rendered from a validly populated
\* instance has been parsed, what parsing produced is an instance value-equal
\* to the one that was rendered, whatever nested composites, repeated
\* elements, group references and attribute-group references it holds.
C20_RoundTrip ==
    pc = "parsed" => reparsed = Return(instance)

\* The types that declare a nilable attribute, themselves or by inheritance.
HasNilable(name) ==
    \E k \in 1..Len(EffectiveFields(name)) :
        LET d == EffectiveFields(name)[k].descriptor
        IN  d.descriptor = "Attribute" /\ d.nilable

\* The law on the instances of every type that declares no nilable attribute.
RoundTripUnlessNilable ==
    (pc = "parsed" /\ ~HasNilable(instance.class))
        => reparsed = Return(instance)


\* The children a list renders to: one node per item, in the list's order.
ItemNodes(tagname, items) ==
    [i \in 1..Len(items) |-> Node(tagname, <<>>, <<>>, items[i].v)]

\* C21: a repeated element given a list whose length is within minOccurs and
\* maxOccurs renders one child node per item, in the list's order (none for
\* an empty list when minOccurs is 0); given a list shorter than minOccurs or
\* longer than maxOccurs it fails with a cardinality error and returns no
\* node, truncated or not.
C21_RepeatedElement ==
    pc = "field_rendered" =>
        LET f == instance.descriptor
            n == Len(instance.value)
        IN  IF f.minOccurs <= n /\ n <= f.maxOccurs
            THEN xmlelement =
                    Return(Node("flight", <<>>, ItemNodes(f.tagname, instance.value), ""))
            ELSE xmlelement = Raise(OtherError("CardinalityError"))

\* The list of eleven passengers, one more than maxOccurs=10, has failed.
C21_Witness ==
    /\ pc = "field_rendered"
    /\ instance.descriptor.maxOccurs = MaxOccurs
    /\ Len(instance.value) = MaxOccurs + 1
    /\ xmlelement = Raise(OtherError("CardinalityError"))


PilotValues == {None} \cup {Some(PyStr(e)) : e \in Pilot.enumeration}

\* The text of the node's first child of that name, if there is one.
ChildText(node, name) ==
    IF FindAll(node, name) = <<>> THEN None
    ELSE Some(PyStr(FindAll(node, name)[1].text))

\* The last operation was given a pilot: inside the enumeration it was
\* accepted, outside it failed and the field kept the value it had.
PilotAttempt(a) ==
    IF a.value.v \in Pilot.enumeration
    THEN /\ a.outcome.tag = "return"
         /\ a.op = "setattr" => instance.fields[a.name] = Some(a.value)
         /\ a.op = "render" =>
                a.outcome.value.children = <<Node(a.name, <<>>, <<>>, a.value.v)>>
    ELSE /\ a.outcome.tag = "raise"
         /\ instance.fields[a.name] = a.before

\* C22: a field whose type has an enumeration never holds a value outside
\* it: assigning, encoding or parsing "ABC" for a pilot fails and the field
\* keeps the value it had, while "CAPTAIN" or "FIRST_OFFICER" is accepted,
\* stored, and rendered as the text of the field's node.
C22_Enumeration ==
    /\ \A n \in PilotNames : instance.fields[n] \in PilotValues
    /\ (ret # None /\ ret[1].name \in PilotNames) => PilotAttempt(ret[1])
    /\ (pc = "rendered" /\ xmlelement.tag = "return") =>
            \A n \in PilotNames : ChildText(xmlelement.value, n) = instance.fields[n]
    /\ pc = "parsed" =>
            IF \A n \in PilotNames :
                    ChildText(xmlelement.value, n)[1].v \in Pilot.enumeration
            THEN /\ reparsed.tag = "return"
                 /\ \A n \in PilotNames :
                        reparsed.value.fields[n] = ChildText(xmlelement.value, n)
            ELSE reparsed.tag = "raise"

\* "ABC" was refused for a pilot that stayed the captain, and the flight has
\* been rendered with the captain.
C22_Witness ==
    /\ pc = "rendered"
    /\ xmlelement.tag = "return"
    /\ ret # None
    /\ ret[1].op = "setattr"
    /\ ret[1].name = "takeoff_pilot"
    /\ ret[1].value = PyStr("ABC")
    /\ ret[1].outcome.tag = "raise"
    /\ ret[1].before = Some(PyStr("CAPTAIN"))
    /\ ChildText(xmlelement.value, "takeoff_pilot") = Some(PyStr("CAPTAIN"))


\* The attribute of the node under that name, as the string it parses to.
AttributeText(node, name) ==
    IF GetAttribute(node, name) = None THEN None
    ELSE Some(PyStr(GetAttribute(node, name)[1]))

\* C23: for B inheriting from A, A's fields come before B's own: an instance
\* of B renders A's attribute `name` and then B's attribute `type` (B's
\* element `type` where B declares an element), and a node parsed as B gives
\* an instance whose fields are A's `name` and B's `type`, both populated
\* from the node.
C23_Inheritance ==
    /\ (pc = "rendered" /\ instance.class = "B") =>
            xmlelement =
                Return(Node("inheritance",
                            <<[name |-> "name", value |-> instance.fields["name"][1].v],
                              [name |-> "type", value |-> instance.fields["type"][1].v]>>,
                            <<>>, ""))
    /\ (pc = "rendered" /\ instance.class = "B2") =>
            xmlelement =
                Return(Node("inheritance",
                            <<[name |-> "name", value |-> instance.fields["name"][1].v]>>,
                            <<Node("type", <<>>, <<>>, instance.fields["type"][1].v)>>,
                            ""))
    /\ (pc = "parsed" /\ instance.class \in {"B", "B2"}) =>
            /\ reparsed.tag = "return"
            /\ reparsed.value.class = instance.class
            /\ DOMAIN reparsed.value.fields = {"name", "type"}
            /\ reparsed.value.fields["name"] = AttributeText(xmlelement.value, "name")
            /\ reparsed.value.fields["type"] =
                    IF instance.class = "B"
                    THEN AttributeText(xmlelement.value, "type")
                    ELSE ChildText(xmlelement.value, "type")
            /\ reparsed.value.fields["name"] # None
            /\ reparsed.value.fields["type"] # None

\* <inheritance name=".." type=".."/> has been rendered from a B and parsed.
C23_Witness ==
    /\ pc = "parsed"
    /\ instance.class = "B"
    /\ Len(xmlelement.value.attrib) = 2
    /\ xmlelement.value.attrib[1].name = "name"
    /\ xmlelement.value.attrib[2].name = "type"
    /\ reparsed = Return(instance)


\* The node of an optional string element: none when the value is absent.
OptionalNode(name, value) ==
    IF value = None THEN <<>> ELSE <<Node(name, <<>>, <<>>, value[1].v)>>

\* C24: a group reference adds no wrapper node: an operation renders its own
\* `name` and then the populated members of its group, `input` and `output`,
\* as direct children of the operation's node, and nothing at all for a group
\* with no populated member.
C24_GroupInPlace ==
    (pc = "rendered" /\ instance.class = "Operation") =>
        LET group == instance.fields["requestResponseOperation"]
        IN  xmlelement =
                Return(Node("operation", <<>>,
                            <<Node("name", <<>>, <<>>, instance.fields["name"][1].v)>>
                                \o OptionalNode("input", group.fields["input"])
                                \o OptionalNode("output", group.fields["output"]),
                            ""))

\* An operation whose group has no populated member has been rendered: its
\* node has the one child `name`.
C24_Witness ==
    /\ pc = "rendered"
    /\ instance.class = "Operation"
    /\ instance.fields["requestResponseOperation"]
            = New("RequestResponseOperation")
    /\ xmlelement.tag = "return"
    /\ Len(xmlelement.value.children) = 1

====
